---- MODULE Spec2Model ----
(***************************************************************************)
(* A model of maptalks' CanvasRenderer (src/renderer/layer/CanvasRenderer) *)
(* and of its ResourceCache: the redraw flag, the resource loading flag,   *)
(* the batches of image fetches started by render() and the cache the      *)
(* fetches write to.                                                       *)
(***************************************************************************)
EXTENDS Integers, Sequences, FiniteSets, TLC

(***************************************************************************)
(* Bounds of the model.                                                    *)
(***************************************************************************)
\* the number of load batches (aggregate promises) that may be outstanding at once
MaxBatches == 2
\* the longest array checkResources() returns
MaxBatchLen == 2
\* the largest width and height isResourceLoaded is asked about
MaxProbe == 7
\* the largest width and height hint given to a ResourceCache used on its own
MaxSize == 2

(***************************************************************************)
(* JavaScript values of the width/height hints of a resource url.          *)
(***************************************************************************)
Undefined == [t |-> "undefined"]
NaN == [t |-> "NaN"]
Num(n) == [t |-> "number", v |-> n]

\* unary plus: +x
ToNumber(x) == IF x.t = "undefined" THEN NaN ELSE x
\* if (x) { ... }
Truthy(x) == x.t = "number" /\ x.v # 0
\* a > b on numbers: false as soon as one side is NaN
Gt(a, b) == a.t = "number" /\ b.t = "number" /\ a.v > b.v
\* x *= 2
Times2(x) == IF x.t = "number" THEN Num(2 * x.v) ELSE NaN
\* the string of an array element in Array.prototype.join
Str(x) == IF x.t = "undefined" THEN "" ELSE IF x.t = "NaN" THEN "NaN" ELSE ToString(x.v)

(***************************************************************************)
(* Resource urls: [url, width, height]; NoUrl is an empty or missing one.  *)
(***************************************************************************)
Ids == {"a.svg", "b.png"}
NoUrl == <<>>
Requests ==
    { <<"a.svg", Num(1), Num(1)>>, <<"a.svg", Num(3), Num(1)>>,
      <<"b.png", Undefined, Undefined>>, NoUrl }
\* the urls isResourceLoaded is asked about
ProbeSizes == {Undefined} \cup {Num(n) : n \in 0..MaxProbe}
ProbeUrls(id) == {<<id, w, h>> : w \in ProbeSizes, h \in ProbeSizes}
\* what checkResources() may return
Batches == UNION { [1..n -> Requests] : n \in 0..MaxBatchLen }

\* core/util isSVG: 1 for a url ending in .svg, 0 for a raster file
isSVG(id) == IF id = "a.svg" THEN 1 ELSE 0
\* core/util IS_NODE: the browser build
IS_NODE == FALSE
\* url.join('-')
Join(url) == url[1] \o "-" \o Str(url[2]) \o "-" \o Str(url[3])

(***************************************************************************)
(* ResourceCache                                                           *)
(***************************************************************************)
\* constructor: this.resources = {}; this._errors = {}
NewCache == [resources |-> {}, errors |-> {}]

HasEntry(c, key) == \E e \in c.resources : e.key = key
EntryOf(c, key) == CHOOSE e \in c.resources : e.key = key

getImgUrl(url) == url[1]

\* an addResource that takes a successful load as the end of an earlier failure
addResourceClearsError(c, url, img) ==
    [resources |->
        {e \in c.resources : e.key # url[1]} \cup
        {[key |-> url[1], image |-> img,
          width |-> ToNumber(url[2]), height |-> ToNumber(url[3])]},
     errors |-> c.errors \ {url[1]}]

addResource(c, url, img) ==
    [c EXCEPT !.resources =
        {e \in @ : e.key # url[1]} \cup
        {[key |-> url[1], image |-> img,
          width |-> ToNumber(url[2]), height |-> ToNumber(url[3])]}]

\* an isResourceLoaded that wants the cached size strictly larger than the request
isResourceLoadedStrict(c, url, checkSVG) ==
    IF url = NoUrl THEN FALSE
    ELSE IF getImgUrl(url) \in c.errors THEN TRUE
    ELSE IF ~HasEntry(c, getImgUrl(url)) THEN FALSE
    ELSE LET img == EntryOf(c, getImgUrl(url)) IN
         ~(checkSVG /\ isSVG(url[1]) # 0
             /\ (~Gt(img.width, ToNumber(url[2])) \/ ~Gt(img.height, ToNumber(url[3]))))

isResourceLoaded(c, url, checkSVG) ==
    IF url = NoUrl THEN FALSE
    ELSE IF getImgUrl(url) \in c.errors THEN TRUE
    ELSE IF ~HasEntry(c, getImgUrl(url)) THEN FALSE
    ELSE LET img == EntryOf(c, getImgUrl(url)) IN
         IF checkSVG /\ isSVG(url[1]) # 0
               /\ (Gt(ToNumber(url[2]), img.width) \/ Gt(ToNumber(url[3]), img.height))
         THEN FALSE
         ELSE TRUE

Null == "null"
\* a getImage that asks the size-aware isResourceLoaded
getImageChecksSize(c, url) ==
    IF ~isResourceLoaded(c, url, TRUE) \/ getImgUrl(url) \in c.errors
    THEN Null
    ELSE EntryOf(c, getImgUrl(url)).image

getImage(c, url) ==
    IF ~isResourceLoaded(c, url, FALSE) \/ getImgUrl(url) \in c.errors
    THEN Null
    ELSE EntryOf(c, getImgUrl(url)).image

markErrorResource(c, url) == [c EXCEPT !.errors = @ \cup {getImgUrl(url)}]

\* for (const p in res.resources) this.addResource([p, img.width, img.height], img.image)
RECURSIVE mergeLoop(_, _)
mergeLoop(c, todo) ==
    IF todo = {} THEN c
    ELSE LET img == CHOOSE e \in todo : TRUE IN
         mergeLoop(addResource(c, <<img.key, img.width, img.height>>, img.image),
                   todo \ {img})

NoCache == [none |-> TRUE]

\* a merge that takes the other cache's error marks too
mergeWithErrors(c, res) ==
    IF res = NoCache THEN c
    ELSE [mergeLoop(c, res.resources) EXCEPT !.errors = @ \cup res.errors]

merge(c, res) == IF res = NoCache THEN c ELSE mergeLoop(c, res.resources)

(***************************************************************************)
(* The state of one CanvasRenderer.                                        *)
(***************************************************************************)
VARIABLES
    layer,            \* this.layer is set (remove() deletes it)
    toRedraw,         \* this._toRedraw
    loadingResource,  \* this._loadingResource (deleted or undefined: FALSE)
    canvas,           \* this.canvas exists
    painted,          \* this._painted
    hasResources,     \* this.resources is set
    resources,        \* the ResourceCache made by render(), which the fetches' closures keep
    fetches,          \* the images being loaded: [b: batch, url: the url as amplified]
    batch,            \* per batch: "free", "pending" or "rejected" (the Promise.all of the batch)
    last,             \* the last call and what it did or returned
    scenario,         \* the end-to-end run of SpecE2E: its requests, its phase, the draws counted
    map,              \* what the map answers needToRedraw(), with the layer's options
    surface,          \* the canvas and its context: size, transform, clip
    cycle,            \* _renderComplete, _canvasUpdated, _extent2D, _maskExtent, _errorThrown
    zoom              \* map.getZoom()

vars == <<layer, toRedraw, loadingResource, canvas, painted, hasResources,
          resources, fetches, batch, last, scenario, map, surface, cycle, zoom>>

\* the variables that the specifications of the loader and of the cache leave as the
\* constructor found them: they follow the map and the draw() of no layer
drawVars == <<map, surface, cycle, zoom>>

BatchIds == 1..MaxBatches

\* the map's state as needToRedraw() reads it, with the layer's option and the
\* presence of a drawOnInteracting method
MapStates ==
    [interacting : BOOLEAN, pitch : {0, 1}, moving : BOOLEAN, zooming : BOOLEAN,
     rotating : BOOLEAN, forceRenderOnMoving : BOOLEAN, drawOnInteracting : BOOLEAN]

\* a needToRedraw that tests the redraw flag before the loading flag
needToRedrawFlagFirst(m) ==
    IF toRedraw THEN TRUE
    ELSE IF loadingResource THEN FALSE
    ELSE IF ~m.drawOnInteracting THEN FALSE
    ELSE m.interacting /\ ~(m.pitch = 0 /\ m.moving /\ ~m.zooming /\ ~m.rotating
                            /\ ~m.forceRenderOnMoving)

\* a needToRedraw that lets a zoom redraw a layer without drawOnInteracting
needToRedrawZoomRedraws(m) ==
    IF loadingResource THEN FALSE
    ELSE IF toRedraw THEN TRUE
    ELSE IF ~m.drawOnInteracting THEN m.interacting /\ m.zooming
    ELSE m.interacting /\ ~(m.pitch = 0 /\ m.moving /\ ~m.zooming /\ ~m.rotating
                            /\ ~m.forceRenderOnMoving)

\* a needToRedraw without the test of drawOnInteracting
needToRedrawNoCapabilityCheck(m) ==
    IF loadingResource THEN FALSE
    ELSE IF toRedraw THEN TRUE
    ELSE m.interacting /\ ~(m.pitch = 0 /\ m.moving /\ ~m.zooming /\ ~m.rotating
                            /\ ~m.forceRenderOnMoving)

\* a needToRedraw that does not look at the pitch
needToRedrawIgnoresPitch(m) ==
    IF loadingResource THEN FALSE
    ELSE IF toRedraw THEN TRUE
    ELSE IF ~m.drawOnInteracting THEN FALSE
    ELSE m.interacting /\ ~(m.moving /\ ~m.zooming /\ ~m.rotating
                            /\ ~m.forceRenderOnMoving)

needToRedraw(m) ==
    IF loadingResource THEN FALSE
    ELSE IF toRedraw THEN TRUE
    ELSE IF ~m.drawOnInteracting THEN FALSE
    ELSE IF m.interacting
         THEN ~(m.pitch = 0 /\ m.moving /\ ~m.zooming /\ ~m.rotating
                /\ ~m.forceRenderOnMoving)
         ELSE FALSE

(***************************************************************************)
(* loadResources and _promiseResource                                      *)
(***************************************************************************)
\* an amplification that does not ask whether the url is an SVG
AmplifyAny(url) ==
    <<url[1], IF Truthy(url[2]) THEN Times2(url[2]) ELSE url[2],
              IF Truthy(url[3]) THEN Times2(url[3]) ELSE url[3]>>

\* if (isSVG(url[0]) && !IS_NODE) { if (url[1]) url[1] *= 2; if (url[2]) url[2] *= 2; }
Amplify(url) ==
    IF isSVG(url[1]) # 0 /\ ~IS_NODE
    THEN <<url[1], IF Truthy(url[2]) THEN Times2(url[2]) ELSE url[2],
                   IF Truthy(url[3]) THEN Times2(url[3]) ELSE url[3]>>
    ELSE url

\* the executor of _promiseResource: the urls it calls loadImage for (none when the
\* resource is loaded by now, and the promise is resolved at once)
promiseResource(c, url) ==
    IF isResourceLoaded(c, url, TRUE) THEN <<>> ELSE <<Amplify(url)>>

\* the loop of loadResources, from the last url to the first: the urls fetched,
\* in the order of the promises
RECURSIVE loadLoop(_, _, _, _)
loadLoop(c, resourceUrls, i, cache) ==
    IF i < 1 THEN <<>>
    ELSE LET url == resourceUrls[i] IN
         IF url = NoUrl \/ Join(url) \in cache
         THEN loadLoop(c, resourceUrls, i - 1, cache)
         ELSE (IF ~isResourceLoaded(c, url, TRUE) THEN promiseResource(c, url) ELSE <<>>)
              \o loadLoop(c, resourceUrls, i - 1, cache \cup {Join(url)})

loadResources(c, resourceUrls) == loadLoop(c, resourceUrls, Len(resourceUrls), {})

Range(s) == {s[i] : i \in DOMAIN s}
FreeBatches == {b \in BatchIds : batch[b] = "free"}
FetchesOf(b) == {f \in fetches : f.b = b}

(***************************************************************************)
(* Initial state: after the constructor, which calls setToRedraw().        *)
(***************************************************************************)
InitRenderer ==
    /\ layer = TRUE
    /\ toRedraw = TRUE
    /\ loadingResource = FALSE
    /\ canvas = FALSE
    /\ painted = FALSE
    /\ hasResources = FALSE
    /\ resources = NewCache
    /\ fetches = {}
    /\ batch = [b \in BatchIds |-> "free"]
    /\ last = [op |-> "constructor"]

\* a map at rest and a layer with neither drawOnInteracting nor forceRenderOnMoving
MapAtRest ==
    [interacting |-> FALSE, pitch |-> 0, moving |-> FALSE, zooming |-> FALSE,
     rotating |-> FALSE, forceRenderOnMoving |-> FALSE, drawOnInteracting |-> FALSE]

\* no canvas yet; retina is Browser.retina. width and height are the canvas's, scale
\* the factor of the context's transform, saved the depth of its stack of saved states
\* drawnWith: the snapshot (zoom, extent) of the render() whose draw() last drew on
\* the canvas
NewSurface(retina) ==
    [retina |-> retina, width |-> 0, height |-> 0, scale |-> 1, saved |-> 0,
     clipped |-> FALSE, drawnWith |-> "nothing"]

NoExtent == "undefined"
NewCycle ==
    [renderComplete |-> FALSE, canvasUpdated |-> FALSE, extent2D |-> NoExtent,
     maskExtent |-> NoExtent, errorThrown |-> FALSE, warned |-> 0,
     renderZoom |-> Undefined, northWest |-> NoExtent]

InitDrawVars ==
    map = MapAtRest /\ surface = NewSurface(FALSE) /\ cycle = NewCycle /\ zoom = 1

Init == InitRenderer /\ scenario = [phase |-> "off"] /\ InitDrawVars

(***************************************************************************)
(* render()                                                                *)
(***************************************************************************)
\* _drawAndRecord: this._painted = true; this.draw(). The abstract draw() makes the
\* canvas (prepareCanvas) or not: makesCanvas.
drawAndRecord(makesCanvas) ==
    /\ painted' = TRUE
    /\ canvas' = (canvas \/ makesCanvas)

\* _tryToDraw; empty: the layer has an isEmpty method and it returns true
tryToDraw(empty, makesCanvas) ==
    /\ toRedraw' = FALSE
    /\ IF ~canvas /\ empty
       THEN UNCHANGED <<painted, canvas>>
       ELSE drawAndRecord(makesCanvas)

Drew(empty) == ~(~canvas /\ empty)

\* the batch render() starts: the smallest free one
NewBatch == CHOOSE b \in FreeBatches : \A c \in FreeBatches : b <= c

\* render(), with what the layer answers: isVisible(), checkResources() (empty
\* also when the renderer has no checkResources), isEmpty()
Render(visible, resourceUrls, empty, makesCanvas) ==
    /\ layer
    /\ UNCHANGED layer
    /\ IF ~visible
       THEN /\ UNCHANGED <<toRedraw, loadingResource, canvas, painted, hasResources,
                           resources, fetches, batch>>
            /\ last' = [op |-> "render", b |-> 0, drew |-> FALSE]
       ELSE /\ hasResources' = TRUE
            /\ UNCHANGED resources
            /\ IF Len(resourceUrls) > 0
               THEN /\ FreeBatches # {}
                    /\ loadingResource' = TRUE
                    /\ fetches' = fetches \cup
                          {[b |-> NewBatch, url |-> u] :
                              u \in Range(loadResources(resources, resourceUrls))}
                    /\ batch' = [batch EXCEPT ![NewBatch] = "pending"]
                    /\ UNCHANGED <<toRedraw, canvas, painted>>
                    /\ last' = [op |-> "render", b |-> NewBatch, drew |-> FALSE]
               ELSE /\ tryToDraw(empty, makesCanvas)
                    /\ UNCHANGED <<loadingResource, fetches, batch>>
                    /\ last' = [op |-> "render", b |-> 0, drew |-> Drew(empty)]

\* the callback render() gives to the batch's promise; it runs once Promise.all
\* has resolved, that is once every promise of the batch has
\* a race instead of Promise.all: resolved as soon as one promise of the batch has
AnyResolved(b) ==
    /\ batch[b] = "pending"
    /\ \/ FetchesOf(b) = {}
       \/ last.op \in {"onload", "onabort", "onerror"} /\ last.b = b

AllResolved(b) == batch[b] = "pending" /\ FetchesOf(b) = {}

BatchThen(b) ==
    /\ AllResolved(b)
    /\ loadingResource' = FALSE
    /\ toRedraw' = (IF layer THEN TRUE ELSE toRedraw)
    /\ batch' = [batch EXCEPT ![b] = "free"]
    /\ last' = [op |-> "then", b |-> b, resourceload |-> layer]
    /\ UNCHANGED <<layer, canvas, painted, hasResources, resources, fetches>>

(***************************************************************************)
(* The three ends of a fetch: img.onload, img.onabort, img.onerror. Each   *)
(* gives the cache it leaves and how it settles the promise.               *)
(***************************************************************************)
\* _cacheResource; the image (or, with cacheSvgOnCanvas on Edge and IE, the canvas it
\* is painted on) is named by the url it was loaded from
cacheResource(c, url) ==
    IF ~layer \/ ~hasResources THEN c
    ELSE addResource(c, url, url[1])

onload(c, url) == [cache |-> cacheResource(c, url), settle |-> "resolve"]

\* an onabort that records the abort as a failure
onabortMarksError(c, url) == [cache |-> markErrorResource(c, url), settle |-> "resolve"]

onabort(c, url) == [cache |-> c, settle |-> "resolve"]

\* an onerror that does not record the failure
onerrorNoMark(c, url) == [cache |-> c, settle |-> "resolve"]

\* an onerror that rejects the promise
onerrorRejects(c, url) == [cache |-> markErrorResource(c, url), settle |-> "reject"]

onerror(c, url) == [cache |-> markErrorResource(c, url), settle |-> "resolve"]

\* fetch f ends with the result r of its handler
Settle(f, r, how) ==
    /\ resources' = r.cache
    /\ fetches' = fetches \ {f}
    /\ batch' = IF r.settle = "reject" /\ batch[f.b] = "pending"
                THEN [batch EXCEPT ![f.b] = "rejected"]
                ELSE batch
    /\ last' = [op |-> how, b |-> f.b, id |-> f.url[1]]
    /\ UNCHANGED <<layer, toRedraw, loadingResource, canvas, painted, hasResources>>

ImgOnload(f) == Settle(f, onload(resources, f.url), "onload")
ImgOnabort(f) == Settle(f, onabort(resources, f.url), "onabort")
ImgOnerror(f) == Settle(f, onerror(resources, f.url), "onerror")

(***************************************************************************)
(* The other calls.                                                        *)
(***************************************************************************)
\* a call of needToRedraw() that returns ret, for some state m of the map
NeedToRedraw(ret) ==
    /\ layer
    /\ ret \in {needToRedraw(m) : m \in MapStates}
    /\ last' = [op |-> "needToRedraw", ret |-> ret]
    /\ UNCHANGED <<layer, toRedraw, loadingResource, canvas, painted, hasResources,
                   resources, fetches, batch>>

\* a setToRedraw that flips the flag
SetToRedrawToggles ==
    /\ toRedraw' = ~toRedraw
    /\ last' = [op |-> "setToRedraw"]
    /\ UNCHANGED <<layer, loadingResource, canvas, painted, hasResources,
                   resources, fetches, batch>>

SetToRedraw ==
    /\ toRedraw' = TRUE
    /\ last' = [op |-> "setToRedraw"]
    /\ UNCHANGED <<layer, loadingResource, canvas, painted, hasResources,
                   resources, fetches, batch>>

Remove ==
    /\ layer
    /\ layer' = FALSE
    /\ loadingResource' = FALSE
    /\ canvas' = FALSE
    /\ hasResources' = FALSE
    /\ last' = [op |-> "remove"]
    /\ UNCHANGED <<toRedraw, painted, resources, fetches, batch>>

\* caches of other renderers, merged into this one's
ForeignCaches ==
    { [resources |-> {[key |-> "a.svg", image |-> "other:a.svg",
                       width |-> Num(6), height |-> Num(2)]},
       errors |-> {"b.png"}],
      NoCache }

Merge(res) ==
    /\ layer /\ hasResources
    /\ resources' = merge(resources, res)
    /\ last' = [op |-> "merge", nil |-> (res = NoCache)]
    /\ UNCHANGED <<layer, toRedraw, loadingResource, canvas, painted, hasResources,
                   fetches, batch>>

\* isEmpty() and draw() are reached only by a render() that loads nothing
DrawInputs(visible, resourceUrls) ==
    IF visible /\ Len(resourceUrls) = 0 THEN BOOLEAN ELSE {FALSE}

Next ==
    \/ \E visible \in BOOLEAN, resourceUrls \in Batches :
          \E empty, makesCanvas \in DrawInputs(visible, resourceUrls) :
             Render(visible, resourceUrls, empty, makesCanvas) /\ UNCHANGED <<scenario, drawVars>>
    \/ \E b \in BatchIds : BatchThen(b) /\ UNCHANGED <<scenario, drawVars>>
    \/ \E f \in fetches : ImgOnload(f) /\ UNCHANGED <<scenario, drawVars>>
    \/ \E f \in fetches : ImgOnabort(f) /\ UNCHANGED <<scenario, drawVars>>
    \/ \E f \in fetches : ImgOnerror(f) /\ UNCHANGED <<scenario, drawVars>>
    \/ \E ret \in BOOLEAN : NeedToRedraw(ret) /\ UNCHANGED <<scenario, drawVars>>
    \/ SetToRedraw /\ UNCHANGED <<scenario, drawVars>>
    \/ Remove /\ UNCHANGED <<scenario, drawVars>>
    \/ \E res \in ForeignCaches : Merge(res) /\ UNCHANGED <<scenario, drawVars>>

Spec == Init /\ [][Next]_vars

(***************************************************************************)
(* The end-to-end run: a new layer asks for the resources [A, B]; A loads  *)
(* and B fails; from then on the map's frames call render() when           *)
(* needToRedraw() says so, with the map at rest and no other invalidation. *)
(***************************************************************************)
\* the draws counted after a completion
MaxDraws == 3

Urls == Requests \ {NoUrl}
IdleMaps == {m \in MapStates : ~m.interacting}

InitE2E ==
    /\ InitRenderer
    /\ \E A, B \in Urls :
          /\ A[1] # B[1]
          /\ scenario = [phase |-> "start", A |-> A, B |-> B, draws |-> 0]
    /\ InitDrawVars

E2ERequest ==
    /\ scenario.phase = "start"
    /\ Render(TRUE, <<scenario.A, scenario.B>>, FALSE, FALSE)
    /\ scenario' = [scenario EXCEPT !.phase = "loading"]
    /\ UNCHANGED drawVars

E2ELoadA ==
    /\ scenario.phase = "loading"
    /\ \E f \in fetches : f.url[1] = scenario.A[1] /\ ImgOnload(f)
    /\ UNCHANGED <<scenario, drawVars>>

E2EErrorB ==
    /\ scenario.phase = "loading"
    /\ \E f \in fetches : f.url[1] = scenario.B[1] /\ ImgOnerror(f)
    /\ UNCHANGED <<scenario, drawVars>>

\* a fetch of a later batch ends
E2ELater ==
    /\ scenario.phase = "done"
    /\ \E f \in fetches : ImgOnload(f) \/ ImgOnabort(f) \/ ImgOnerror(f)
    /\ UNCHANGED <<scenario, drawVars>>

E2EThen ==
    /\ \E b \in BatchIds : BatchThen(b)
    /\ scenario' = [scenario EXCEPT !.phase = "done", !.draws = 0]
    /\ UNCHANGED drawVars

\* a frame of the map at rest: render() is called when needToRedraw() returns true
E2EFrame ==
    /\ scenario.phase = "done"
    /\ \E m \in IdleMaps : needToRedraw(m)
    /\ \E resourceUrls \in Batches :
          \E empty, makesCanvas \in DrawInputs(TRUE, resourceUrls) :
             Render(TRUE, resourceUrls, empty, makesCanvas)
    /\ scenario.draws < MaxDraws
    /\ scenario' = [scenario EXCEPT !.draws = IF last'.drew THEN @ + 1 ELSE @]
    /\ UNCHANGED drawVars

E2EQuery ==
    /\ \E ret \in BOOLEAN : NeedToRedraw(ret)
    /\ UNCHANGED <<scenario, drawVars>>

NextE2E ==
    \/ E2ERequest
    \/ E2ELoadA
    \/ E2EErrorB
    \/ E2ELater
    \/ E2EThen
    \/ E2EFrame
    \/ E2EQuery

SpecE2E == InitE2E /\ [][NextE2E]_vars

(***************************************************************************)
(* A ResourceCache used on its own: addResource, markErrorResource, merge  *)
(* and isResourceLoaded called in any order with any arguments.            *)
(***************************************************************************)
CacheSizes == {Undefined} \cup {Num(n) : n \in 1..MaxSize}
CacheUrls == {<<id, w, h>> : id \in Ids, w \in CacheSizes, h \in CacheSizes}
Images == {"img1", "img2"}
\* the urls isResourceLoaded is called with: sizes from 0 to one more than any cached
AskSizes == {Undefined} \cup {Num(n) : n \in 0..(MaxSize + 1)}
AskUrls == {<<id, w, h>> : id \in Ids, w \in AskSizes, h \in AskSizes}

\* the caches merge() is given: each holds entries as addResource leaves them
OtherEntries(id) ==
    {[key |-> id, image |-> e[1], width |-> e[2], height |-> e[3]] :
        e \in {<<"img1", NaN, NaN>>, <<"img2", Num(1), Num(2)>>, <<"img1", Num(2), Num(1)>>}}
CachesWith(keys, errors) ==
    {[resources |-> ea \cup eb, errors |-> errors] :
        ea \in IF "a.svg" \in keys THEN {{e} : e \in OtherEntries("a.svg")} ELSE {{}},
        eb \in IF "b.png" \in keys THEN {{e} : e \in OtherEntries("b.png")} ELSE {{}}}
OtherCaches == UNION {CachesWith(keys, errors) : keys \in SUBSET Ids, errors \in SUBSET Ids}
Keys(c) == {e.key : e \in c.resources}

RendererIdle ==
    UNCHANGED <<layer, toRedraw, loadingResource, canvas, painted, hasResources,
                fetches, batch, scenario, drawVars>>

InitCache == InitRenderer /\ scenario = [phase |-> "cache"] /\ InitDrawVars

CacheAddResource(url, img) ==
    /\ resources' = addResource(resources, url, img)
    /\ last' = [op |-> "addResource"]
    /\ RendererIdle

CacheMarkErrorResource(url) ==
    /\ resources' = markErrorResource(resources, url)
    /\ last' = [op |-> "markErrorResource"]
    /\ RendererIdle

CacheMerge(res) ==
    /\ resources' = merge(resources, res)
    /\ last' = IF res = NoCache THEN [op |-> "merge", nil |-> TRUE]
               ELSE [op |-> "merge", nil |-> FALSE, keys |-> Keys(res), errors |-> res.errors]
    /\ RendererIdle

\* a.merge(a)
CacheMergeSelf ==
    /\ resources' = merge(resources, resources)
    /\ last' = [op |-> "mergeSelf"]
    /\ RendererIdle

CacheIsResourceLoaded(url, checkSVG) ==
    /\ last' = [op |-> "isResourceLoaded", id |-> url[1], checkSVG |-> checkSVG,
                ret |-> isResourceLoaded(resources, url, checkSVG)]
    /\ UNCHANGED resources
    /\ RendererIdle

CacheGetImage(url) ==
    /\ last' = [op |-> "getImage", id |-> url[1], ret |-> getImage(resources, url)]
    /\ UNCHANGED resources
    /\ RendererIdle

NextCache ==
    \/ \E url \in CacheUrls, img \in Images : CacheAddResource(url, img)
    \/ \E url \in CacheUrls : CacheMarkErrorResource(url)
    \/ \E res \in OtherCaches \cup {NoCache} : CacheMerge(res)
    \/ CacheMergeSelf
    \/ \E url \in AskUrls, checkSVG \in BOOLEAN : CacheIsResourceLoaded(url, checkSVG)
    \/ \E url \in AskUrls : CacheGetImage(url)

SpecCache == InitCache /\ [][NextCache]_vars

(***************************************************************************)
(* The scheduler: a renderer that loads nothing, on a map that moves,      *)
(* zooms, rotates and pitches as it likes and calls the renderer's event   *)
(* handlers; setToRedraw(), needToRedraw() and render() in any order.      *)
(***************************************************************************)
\* the setToRedraw() calls counted between two render() that reach _tryToDraw
MaxCalls == 3

\* getEvents(), but for _resize
Events ==
    {"_zoomstart", "_zooming", "_zoomend", "_movestart", "_moving", "_moveend",
     "_dragrotatestart", "_dragrotating", "_dragrotateend", "_spatialreferencechange"}
\* handlers of which onDragRotateEnd is empty as well
InvalidatingButRotate == {"_zoomend", "_moveend"}
\* onZoomEnd, onMoveEnd, onDragRotateEnd call setToRedraw(); the other handlers are empty
Invalidating == {"_zoomend", "_moveend", "_dragrotateend"}

InitSched ==
    /\ InitRenderer
    /\ scenario = [phase |-> "sched", calls |-> 0, collapsed |-> 0]
    /\ map \in {m \in MapStates : ~m.interacting /\ m.pitch = 0 /\ ~m.moving
                                   /\ ~m.zooming /\ ~m.rotating}
    /\ surface = NewSurface(FALSE)
    /\ cycle = NewCycle
    /\ zoom = 1

\* the map changes what isInteracting(), getPitch(), isMoving(), isZooming() and
\* isRotating() answer; the layer keeps its options
MapChanges(m) ==
    /\ m.forceRenderOnMoving = map.forceRenderOnMoving
    /\ m.drawOnInteracting = map.drawOnInteracting
    /\ m # map
    /\ map' = m
    /\ last' = [op |-> "map"]
    /\ UNCHANGED <<layer, toRedraw, loadingResource, canvas, painted, hasResources,
                   resources, fetches, batch, scenario, surface, cycle, zoom>>

OnEvent(e) ==
    /\ toRedraw' = (IF e \in Invalidating THEN TRUE ELSE toRedraw)
    /\ last' = [op |-> e]
    /\ UNCHANGED <<layer, loadingResource, canvas, painted, hasResources,
                   resources, fetches, batch, scenario, drawVars>>

SchedSetToRedraw ==
    /\ scenario.calls < MaxCalls
    /\ SetToRedraw
    /\ scenario' = [scenario EXCEPT !.calls = @ + 1]
    /\ UNCHANGED drawVars

\* needToRedraw() on the map as it is
SchedNeedToRedraw ==
    /\ last' = [op |-> "needToRedraw", ret |-> needToRedraw(map)]
    /\ UNCHANGED <<layer, toRedraw, loadingResource, canvas, painted, hasResources,
                   resources, fetches, batch, scenario, drawVars>>

\* render() of a layer with nothing to load; scenario counts the setToRedraw() calls
\* since _tryToDraw last cleared the flag, and how many of them the last draw served
SchedRender(visible, empty, makesCanvas) ==
    /\ Render(visible, <<>>, empty, makesCanvas)
    /\ scenario' = IF visible
                   THEN [scenario EXCEPT
                            !.calls = 0,
                            !.collapsed = IF last'.drew THEN scenario.calls ELSE @]
                   ELSE scenario
    /\ UNCHANGED drawVars

NextSched ==
    \/ \E m \in MapStates : MapChanges(m)
    \/ \E e \in Events : OnEvent(e)
    \/ SchedSetToRedraw
    \/ SchedNeedToRedraw
    \/ \E visible \in BOOLEAN :
          \E empty, makesCanvas \in DrawInputs(visible, <<>>) :
             SchedRender(visible, empty, makesCanvas)

SpecSched == InitSched /\ [][NextSched]_vars

(***************************************************************************)
(* The canvas: createCanvas, resizeCanvas, clearCanvas, prepareCanvas and  *)
(* completeRender, as functions of the renderer's canvas, surface and      *)
(* cycle fields: d = [layer, canvas, surface, cycle].                      *)
(***************************************************************************)
\* the largest width and height of a map, in CSS pixels
MaxDim == 2
Sizes == [width : 1..MaxDim, height : 1..MaxDim]
\* resizeCanvas() called without a size
NoSize == [none |-> TRUE]

\* what map._get2DExtent() answers
Views == {"v1", "v2"}
\* layer.getMask(): none, or a mask with the extent of its painter; meets tells
\* which view extents maskExtent2D.intersects() answers true for
NoMask == [none |-> TRUE]
Masks == {[extent |-> "m1", meets |-> {"v1"}], [extent |-> "m2", meets |-> Views]}
intersects(mask, extent2D) == extent2D \in mask.meets

\* const r = Browser.retina ? 2 : 1
ratio(sf) == IF sf.retina THEN 2 ELSE 1

\* a new context, and the context after canvas.width or canvas.height is assigned:
\* identity transform, no saved state, no clip
ResetContext(sf) == [sf EXCEPT !.scale = 1, !.saved = 0]
\* if (Browser.retina) { this.context.scale(r, r); }
ScaleRetina(sf) == IF sf.retina THEN [sf EXCEPT !.scale = @ * ratio(sf)] ELSE sf

createCanvas(d, size) ==
    IF d.canvas THEN d
    ELSE LET sf == d.surface IN
         [d EXCEPT
            !.canvas = TRUE,
            !.surface = ScaleRetina(ResetContext(
                            [sf EXCEPT !.width = ratio(sf) * size.width,
                                       !.height = ratio(sf) * size.height]))]

\* a resizeCanvas that compares the widths only
resizeCanvasWidthOnly(d, canvasSize, mapSize) ==
    IF ~d.canvas THEN d
    ELSE LET size == IF canvasSize = NoSize THEN mapSize ELSE canvasSize
             sf == d.surface
         IN  IF sf.width = ratio(sf) * size.width
             THEN d
             ELSE [d EXCEPT !.surface = ScaleRetina(ResetContext(
                                [sf EXCEPT !.height = ratio(sf) * size.height,
                                           !.width = ratio(sf) * size.width]))]

resizeCanvas(d, canvasSize, mapSize) ==
    IF ~d.canvas THEN d
    ELSE LET size == IF canvasSize = NoSize THEN mapSize ELSE canvasSize
             sf == d.surface
         IN  IF sf.width = ratio(sf) * size.width /\ sf.height = ratio(sf) * size.height
             THEN d
             ELSE [d EXCEPT !.surface = ScaleRetina(ResetContext(
                                [sf EXCEPT !.height = ratio(sf) * size.height,
                                           !.width = ratio(sf) * size.width]))]

\* Canvas2D.clearRect: the pixels are not part of the model
clearCanvas(d) == d

\* this.context.restore(): pops a saved state, if there is one
restore(sf) == [sf EXCEPT !.saved = IF @ > 0 THEN @ - 1 ELSE 0]

\* a prepareCanvas that does not undo the clip of the cycle before
prepareCanvasKeepsClip(d, mask, mapSize) ==
    LET d2 == IF ~d.canvas THEN createCanvas(d, mapSize) ELSE clearCanvas(d)
        d3 == [d2 EXCEPT !.cycle.maskExtent = NoExtent, !.surface.clipped = FALSE]
    IN  IF mask = NoMask THEN [d |-> d3, ret |-> Null]
        ELSE LET d4 == [d3 EXCEPT !.cycle.maskExtent = mask.extent] IN
             IF ~intersects(mask, d4.cycle.extent2D)
             THEN [d |-> d4, ret |-> mask.extent]
             ELSE [d |-> [d4 EXCEPT !.surface.saved = @ + 1, !.surface.clipped = TRUE],
                   ret |-> mask.extent]

\* a prepareCanvas that clips by the mask without asking whether it meets the view
prepareCanvasAlwaysClips(d, mask, mapSize) ==
    LET d1 == IF d.surface.clipped
              THEN [d EXCEPT !.surface = [restore(@) EXCEPT !.clipped = FALSE]]
              ELSE d
        d2 == IF ~d1.canvas THEN createCanvas(d1, mapSize) ELSE clearCanvas(d1)
        d3 == [d2 EXCEPT !.cycle.maskExtent = NoExtent]
    IN  IF mask = NoMask THEN [d |-> d3, ret |-> Null]
        ELSE [d |-> [d3 EXCEPT !.cycle.maskExtent = mask.extent,
                               !.surface.saved = @ + 1, !.surface.clipped = TRUE],
              ret |-> mask.extent]

\* prepareCanvas; gives the fields it leaves and what it returns
prepareCanvas(d, mask, mapSize) ==
    LET d1 == IF d.surface.clipped
              THEN [d EXCEPT !.surface = [restore(@) EXCEPT !.clipped = FALSE]]
              ELSE d
        d2 == IF ~d1.canvas THEN createCanvas(d1, mapSize) ELSE clearCanvas(d1)
        d3 == [d2 EXCEPT !.cycle.maskExtent = NoExtent]
    IN  IF mask = NoMask THEN [d |-> d3, ret |-> Null]
        ELSE LET d4 == [d3 EXCEPT !.cycle.maskExtent = mask.extent] IN
             IF ~intersects(mask, d4.cycle.extent2D)
             THEN [d |-> d4, ret |-> mask.extent]
             ELSE [d |-> [d4 EXCEPT !.surface.saved = @ + 1, !.surface.clipped = TRUE],
                   ret |-> mask.extent]

completeRender(d) ==
    IF d.layer /\ d.canvas
    THEN [d EXCEPT !.cycle.renderComplete = TRUE, !.cycle.canvasUpdated = TRUE]
    ELSE d

(***************************************************************************)
(* render() of a layer with nothing to load, with the draw() of the layer: *)
(* draw() is abstract; a run of it calls prepareCanvas or not, then        *)
(* returns, or calls completeRender and returns, or throws.                *)
(***************************************************************************)
DrawRuns ==
    {[prepare |-> FALSE, mask |-> NoMask, end |-> e] : e \in {"return", "complete", "throw"}}
    \cup [prepare : {TRUE}, mask : Masks \cup {NoMask}, end : {"return", "complete", "throw"}]
NoDraw == [prepare |-> FALSE, mask |-> NoMask, end |-> "return"]
AnySize == [width |-> 1, height |-> 1]
NotCalled == "not called"

D == [layer |-> layer, canvas |-> canvas, surface |-> surface, cycle |-> cycle]
Apply(d) == canvas' = d.canvas /\ surface' = d.surface /\ cycle' = d.cycle

\* map._containerPointToPoint(new Point(0, 0)) when the map shows view
Origin(view) == <<"northWest", view>>

\* a prepareRender that leaves _renderComplete as the cycle before left it
prepareRenderKeepsComplete(d, view) ==
    [d EXCEPT !.cycle.renderZoom = Num(zoom),
              !.cycle.extent2D = view, !.cycle.northWest = Origin(view)]

\* prepareRender: delete this._renderComplete, then the snapshot of the map's zoom,
\* 2D extent and origin
prepareRender(d, view) ==
    [d EXCEPT !.cycle.renderComplete = FALSE, !.cycle.renderZoom = Num(zoom),
              !.cycle.extent2D = view, !.cycle.northWest = Origin(view)]

\* this.draw(): the fields it leaves, what its prepareCanvas returned, whether it threw
draw(d, run, mapSize) ==
    LET p == IF run.prepare THEN prepareCanvas(d, run.mask, mapSize)
             ELSE [d |-> d, ret |-> NotCalled]
        q == IF p.d.canvas
             THEN [p.d EXCEPT !.surface.drawnWith =
                      [zoom |-> d.cycle.renderZoom, extent |-> d.cycle.extent2D]]
             ELSE p.d
    IN  [d |-> IF run.end = "complete" THEN completeRender(q) ELSE q,
         ret |-> p.ret,
         threw |-> run.end = "throw"]

\* a _drawAndRecord that catches what draw() throws
drawAndRecordCatches(d, run, mapSize) ==
    [draw(d, run, mapSize) EXCEPT !.threw = FALSE]

\* _drawAndRecord (this._painted = true is in TryToDraw): nothing catches
DrawAndRecord(d, run, mapSize) == draw(d, run, mapSize)

\* _tryToDraw and _drawAndRecord, after prepareRender gave d
\* a _tryToDraw that clears the redraw flag only when draw() has come back
tryToDrawKeepsFlagOnThrow(d, empty, run, mapSize) ==
    IF ~d.canvas /\ empty
    THEN /\ toRedraw' = FALSE
         /\ Apply([d EXCEPT !.cycle.renderComplete = TRUE])
         /\ UNCHANGED painted
         /\ last' = [op |-> "render", drew |-> FALSE, threw |-> FALSE, ret |-> NotCalled,
                     skipped |-> "empty", onAdd |-> FALSE]
    ELSE LET res == DrawAndRecord(d, run, mapSize) IN
         /\ toRedraw' = IF res.threw THEN toRedraw ELSE FALSE
         /\ painted' = TRUE
         /\ Apply(res.d)
         /\ last' = [op |-> "render", drew |-> TRUE, threw |-> res.threw, ret |-> res.ret,
                     run |-> run, restored |-> (run.prepare /\ d.surface.clipped),
                     onAdd |-> ~painted]

\* a _tryToDraw that does not ask whether the layer is empty
tryToDrawIgnoresEmpty(d, empty, run, mapSize) ==
    LET res == DrawAndRecord(d, run, mapSize) IN
    /\ toRedraw' = FALSE
    /\ painted' = TRUE
    /\ Apply(res.d)
    /\ last' = [op |-> "render", drew |-> TRUE, threw |-> res.threw, ret |-> res.ret,
                run |-> run, restored |-> (run.prepare /\ d.surface.clipped),
                onAdd |-> ~painted]

\* a _tryToDraw that sets _painted after draw() has returned
tryToDrawPaintsAfterDraw(d, empty, run, mapSize) ==
    IF ~d.canvas /\ empty
    THEN /\ toRedraw' = FALSE
         /\ Apply([d EXCEPT !.cycle.renderComplete = TRUE])
         /\ UNCHANGED painted
         /\ last' = [op |-> "render", drew |-> FALSE, threw |-> FALSE, ret |-> NotCalled,
                     skipped |-> "empty", onAdd |-> FALSE]
    ELSE LET res == DrawAndRecord(d, run, mapSize) IN
         /\ toRedraw' = FALSE
         /\ painted' = (painted \/ ~res.threw)
         /\ Apply(res.d)
         /\ last' = [op |-> "render", drew |-> TRUE, threw |-> res.threw, ret |-> res.ret,
                     run |-> run, restored |-> (run.prepare /\ d.surface.clipped),
                     onAdd |-> ~painted]

\* last.onAdd: the hook onAdd() of the subclass was called (581-583)
TryToDraw(d, empty, run, mapSize) ==
    IF ~d.canvas /\ empty
    THEN /\ toRedraw' = FALSE
         /\ Apply([d EXCEPT !.cycle.renderComplete = TRUE])
         /\ UNCHANGED painted
         /\ last' = [op |-> "render", drew |-> FALSE, threw |-> FALSE, ret |-> NotCalled,
                     skipped |-> "empty", onAdd |-> FALSE]
    ELSE LET res == DrawAndRecord(d, run, mapSize) IN
         /\ toRedraw' = FALSE
         /\ painted' = TRUE
         /\ Apply(res.d)
         /\ last' = [op |-> "render", drew |-> TRUE, threw |-> res.threw, ret |-> res.ret,
                     run |-> run, restored |-> (run.prepare /\ d.surface.clipped),
                     onAdd |-> ~painted]

RenderCycle(visible, empty, run, view, mapSize) ==
    /\ layer
    /\ IF ~visible
       THEN /\ Apply(prepareRender(D, view))
            /\ UNCHANGED <<toRedraw, painted, hasResources>>
            /\ last' = [op |-> "render", drew |-> FALSE, threw |-> FALSE, ret |-> NotCalled,
                        skipped |-> "invisible"]
       ELSE /\ hasResources' = TRUE
            /\ TryToDraw(prepareRender(D, view), empty, run, mapSize)
    /\ UNCHANGED <<layer, loadingResource, resources, fetches, batch, map, zoom, scenario>>

(***************************************************************************)
(* hitDetect(point). empty: layer.isEmpty(); inside: the point is within   *)
(* the map's size; px: what getImageData gives, or that it throws.         *)
(***************************************************************************)
Pixels == {"opaque", "clear", "throws"}

\* a hitDetect that does not look at _errorThrown before it reads
hitDetectRetries(d, isPainted, empty, inside, px) ==
    IF ~d.canvas \/ empty \/ ~isPainted
    THEN [d |-> d, ret |-> FALSE, read |-> FALSE]
    ELSE IF ~inside THEN [d |-> d, ret |-> FALSE, read |-> FALSE]
    ELSE IF px = "throws"
         THEN [d |-> [d EXCEPT !.cycle.errorThrown = TRUE,
                               !.cycle.warned = IF d.cycle.errorThrown THEN @ ELSE @ + 1],
               ret |-> FALSE, read |-> TRUE]
         ELSE [d |-> d, ret |-> (px = "opaque"), read |-> TRUE]

hitDetect(d, isPainted, empty, inside, px) ==
    IF ~d.canvas \/ empty \/ ~isPainted \/ d.cycle.errorThrown
    THEN [d |-> d, ret |-> FALSE, read |-> FALSE]
    ELSE IF ~inside THEN [d |-> d, ret |-> FALSE, read |-> FALSE]
    ELSE IF px = "throws"
         THEN [d |-> [d EXCEPT !.cycle.errorThrown = TRUE,
                               !.cycle.warned = IF d.cycle.errorThrown THEN @ ELSE @ + 1],
               ret |-> FALSE, read |-> TRUE]
         ELSE [d |-> d, ret |-> (px = "opaque"), read |-> TRUE]

HitDetect(empty, inside, px) ==
    /\ LET res == hitDetect(D, painted, empty, inside, px) IN
          /\ Apply(res.d)
          /\ last' = [op |-> "hitDetect", ret |-> res.ret, read |-> res.read]
    /\ UNCHANGED <<layer, toRedraw, loadingResource, painted, hasResources,
                   resources, fetches, batch, map, zoom, scenario>>

(***************************************************************************)
(* The other calls on the canvas, and the specification of the draw cycle. *)
(***************************************************************************)
CreateCanvas(mapSize) ==
    /\ layer
    /\ Apply(createCanvas(D, mapSize))
    /\ last' = [op |-> "createCanvas", created |-> ~canvas]
    /\ UNCHANGED <<layer, toRedraw, loadingResource, painted, hasResources,
                   resources, fetches, batch, map, zoom, scenario>>

\* resizeCanvas(canvasSize); it asks the map for its size when it is given none
ResizeCanvas(canvasSize, mapSize) ==
    /\ Apply(resizeCanvas(D, canvasSize, mapSize))
    /\ last' = [op |-> "resizeCanvas", size |-> canvasSize,
                resized |-> (resizeCanvas(D, canvasSize, mapSize) # D)]
    /\ UNCHANGED <<layer, toRedraw, loadingResource, painted, hasResources,
                   resources, fetches, batch, map, zoom, scenario>>

\* onResize: delete this._extent2D; this.resizeCanvas(); this.setToRedraw()
OnResize(mapSize) ==
    /\ layer
    /\ Apply(resizeCanvas([D EXCEPT !.cycle.extent2D = NoExtent], NoSize, mapSize))
    /\ toRedraw' = TRUE
    /\ last' = [op |-> "_resize"]
    /\ UNCHANGED <<layer, loadingResource, painted, hasResources,
                   resources, fetches, batch, map, zoom, scenario>>

\* remove() also deletes the context and _extent2D; _clipped and _errorThrown stay
RemoveCycle ==
    /\ Remove
    /\ surface' = [NewSurface(surface.retina) EXCEPT !.clipped = surface.clipped]
    /\ cycle' = [cycle EXCEPT !.extent2D = NoExtent, !.northWest = NoExtent]
    /\ UNCHANGED <<map, zoom, scenario>>

\* isBlank()
IsBlank ==
    /\ last' = [op |-> "isBlank", ret |-> ~painted]
    /\ UNCHANGED <<layer, toRedraw, loadingResource, canvas, painted, hasResources,
                   resources, fetches, batch, map, zoom, surface, cycle, scenario>>

\* clear(): clearCanvas()
Clear ==
    /\ Apply(clearCanvas(D))
    /\ last' = [op |-> "clear"]
    /\ UNCHANGED <<layer, toRedraw, loadingResource, painted, hasResources,
                   resources, fetches, batch, map, zoom, scenario>>

\* hide(): clear(); setToRedraw()
Hide ==
    /\ Apply(clearCanvas(D))
    /\ toRedraw' = TRUE
    /\ last' = [op |-> "hide"]
    /\ UNCHANGED <<layer, loadingResource, painted, hasResources,
                   resources, fetches, batch, map, zoom, scenario>>

InitDraw ==
    /\ InitRenderer
    /\ scenario = [phase |-> "draw"]
    /\ map = MapAtRest
    /\ zoom = 1
    /\ \E retina \in BOOLEAN : surface = NewSurface(retina)
    /\ cycle = NewCycle

NextDraw ==
    \/ \E view \in Views : RenderCycle(FALSE, FALSE, NoDraw, view, AnySize)
    \/ \E view \in Views, empty \in BOOLEAN :
          \E run \in (IF ~canvas /\ empty THEN {NoDraw} ELSE DrawRuns) :
             \E mapSize \in (IF ~canvas /\ run.prepare THEN Sizes ELSE {AnySize}) :
                RenderCycle(TRUE, empty, run, view, mapSize)
    \/ \E mapSize \in (IF canvas THEN {AnySize} ELSE Sizes) : CreateCanvas(mapSize)
    \/ \E canvasSize \in Sizes : ResizeCanvas(canvasSize, AnySize)
    \/ \E mapSize \in Sizes : ResizeCanvas(NoSize, mapSize)
    \/ \E mapSize \in Sizes : OnResize(mapSize)
    \/ \E empty, inside \in BOOLEAN, px \in Pixels : HitDetect(empty, inside, px)
    \/ \E ret \in BOOLEAN : NeedToRedraw(ret) /\ UNCHANGED <<scenario, drawVars>>
    \/ SetToRedraw /\ UNCHANGED <<scenario, drawVars>>
    \/ RemoveCycle
    \/ IsBlank
    \/ Clear
    \/ Hide

SpecDraw == InitDraw /\ [][NextDraw]_vars

(***************************************************************************)
(* The amplification: a renderer whose layer asks for one resource at a    *)
(* time, of any identifier and size, and whose fetches all load.           *)
(***************************************************************************)
\* the requests: either identifier, each hint undefined or a number up to MaxSize
AmpUrls ==
    LET sizes == {Undefined} \cup {Num(n) : n \in 0..MaxSize} IN
    {<<id, w, h>> : id \in Ids, w \in sizes, h \in sizes}

\* scenario.req[b]: the request render() started batch b with
InitAmp ==
    /\ InitRenderer
    /\ scenario = [phase |-> "amp", req |-> [b \in BatchIds |-> NoUrl]]
    /\ InitDrawVars

\* render() with checkResources() = [u]
AmpRender(u) ==
    /\ fetches = {}
    /\ Render(TRUE, <<u>>, FALSE, FALSE)
    /\ scenario' = [scenario EXCEPT !.req[last'.b] = u]
    /\ UNCHANGED drawVars

AmpOnload(f) == ImgOnload(f) /\ UNCHANGED <<scenario, drawVars>>

AmpThen(b) ==
    /\ BatchThen(b)
    /\ scenario' = [scenario EXCEPT !.req[b] = NoUrl]
    /\ UNCHANGED drawVars

NextAmp ==
    \/ \E u \in AmpUrls : AmpRender(u)
    \/ \E f \in fetches : AmpOnload(f)
    \/ \E b \in BatchIds : AmpThen(b)
    \/ Remove /\ UNCHANGED <<scenario, drawVars>>

SpecAmp == InitAmp /\ [][NextAmp]_vars

(***************************************************************************)
(* getCanvasImage(), and the specification of the snapshot: a renderer on  *)
(* a map that changes its zoom, whose layer draws without a mask and which *)
(* starts loads of resources that are in the cache already.                *)
(***************************************************************************)
\* the largest zoom of the map
MaxZoom == 2
Zooms == 1..MaxZoom

\* what getCanvasImage returns: null, or the canvas with where to put it; Thrown
\* stands for the TypeError of this.getMap().getZoom() when the layer is gone
NoImage == [image |-> Null]
Thrown == [image |-> "TypeError"]
Image(d) == [image |-> "canvas", point |-> d.cycle.northWest, size |-> d.cycle.extent2D]

\* a getCanvasImage that does not compare the zooms
getCanvasImageAnyZoom(d, isPainted, empty) ==
    LET d1 == [d EXCEPT !.cycle.canvasUpdated = FALSE] IN
    IF ~d.layer THEN [d |-> d1, ret |-> Thrown]
    ELSE IF ~d.canvas \/ d.cycle.extent2D = NoExtent
    THEN [d |-> d1, ret |-> NoImage]
    ELSE IF ~isPainted THEN [d |-> d1, ret |-> NoImage]
    ELSE IF empty THEN [d |-> d1, ret |-> NoImage]
    ELSE [d |-> d1, ret |-> Image(d)]

\* a getCanvasImage that gives no image once a pixel read has failed
getCanvasImageRefusesTainted(d, isPainted, empty) ==
    LET d1 == [d EXCEPT !.cycle.canvasUpdated = FALSE] IN
    IF ~d.layer THEN [d |-> d1, ret |-> Thrown]
    ELSE IF d.cycle.renderZoom # Num(zoom) \/ ~d.canvas \/ d.cycle.extent2D = NoExtent
    THEN [d |-> d1, ret |-> NoImage]
    ELSE IF ~isPainted \/ d.cycle.errorThrown THEN [d |-> d1, ret |-> NoImage]
    ELSE IF empty THEN [d |-> d1, ret |-> NoImage]
    ELSE [d |-> d1, ret |-> Image(d)]

getCanvasImage(d, isPainted, empty) ==
    LET d1 == [d EXCEPT !.cycle.canvasUpdated = FALSE] IN
    IF ~d.layer THEN [d |-> d1, ret |-> Thrown]
    ELSE IF d.cycle.renderZoom # Num(zoom) \/ ~d.canvas \/ d.cycle.extent2D = NoExtent
    THEN [d |-> d1, ret |-> NoImage]
    ELSE IF ~isPainted THEN [d |-> d1, ret |-> NoImage]
    ELSE IF empty THEN [d |-> d1, ret |-> NoImage]
    ELSE [d |-> d1, ret |-> Image(d)]

GetCanvasImage(empty) ==
    /\ LET res == getCanvasImage(D, painted, empty) IN
          /\ Apply(res.d)
          /\ last' = [op |-> "getCanvasImage", ret |-> res.ret, empty |-> empty]
    /\ UNCHANGED <<layer, toRedraw, loadingResource, painted, hasResources,
                   resources, fetches, batch, map, zoom, scenario>>

\* the map goes to another zoom
ZoomTo(z) ==
    /\ z # zoom
    /\ zoom' = z
    /\ last' = [op |-> "zoom"]
    /\ UNCHANGED <<layer, toRedraw, loadingResource, canvas, painted, hasResources,
                   resources, fetches, batch, map, surface, cycle, scenario>>

\* render() of a visible layer whose checkResources() names resources, each of them
\* in the cache already: the batch starts without a fetch
RenderLoad(view) ==
    /\ layer
    /\ FreeBatches # {}
    /\ Apply(prepareRender(D, view))
    /\ hasResources' = TRUE
    /\ loadingResource' = TRUE
    /\ batch' = [batch EXCEPT ![NewBatch] = "pending"]
    /\ last' = [op |-> "render", drew |-> FALSE, threw |-> FALSE, ret |-> NotCalled,
                skipped |-> "load", b |-> NewBatch]
    /\ UNCHANGED <<layer, toRedraw, painted, resources, fetches, map, zoom, scenario>>

\* render() after remove(): prepareRender deletes _renderComplete, and then
\* map.getZoom() throws, getMap() giving null
RenderWithoutMap ==
    /\ ~layer
    /\ cycle' = [cycle EXCEPT !.renderComplete = FALSE]
    /\ last' = [op |-> "render", drew |-> FALSE, threw |-> TRUE, ret |-> NotCalled,
                skipped |-> "no map"]
    /\ UNCHANGED <<layer, toRedraw, loadingResource, canvas, painted, hasResources,
                   resources, fetches, batch, map, zoom, surface, scenario>>

\* the draw() of a layer without a mask
ViewRuns == {run \in DrawRuns : run.mask = NoMask}

InitView ==
    /\ InitRenderer
    /\ scenario = [phase |-> "view"]
    /\ InitDrawVars

NextView ==
    \/ \E view \in Views : RenderCycle(FALSE, FALSE, NoDraw, view, AnySize)
    \/ \E view \in Views, empty \in BOOLEAN :
          \E run \in (IF ~canvas /\ empty THEN {NoDraw} ELSE ViewRuns) :
             RenderCycle(TRUE, empty, run, view, AnySize)
    \/ \E view \in Views : RenderLoad(view)
    \/ RenderWithoutMap
    \/ \E b \in BatchIds : BatchThen(b) /\ UNCHANGED <<scenario, drawVars>>
    \/ \E z \in Zooms : ZoomTo(z)
    \/ \E empty \in BOOLEAN : GetCanvasImage(empty)
    \/ \E empty, inside \in BOOLEAN, px \in Pixels : HitDetect(empty, inside, px)
    \/ OnResize(AnySize)
    \/ \E e \in Events : OnEvent(e)
    \/ \E ret \in BOOLEAN : NeedToRedraw(ret) /\ UNCHANGED <<scenario, drawVars>>
    \/ SetToRedraw /\ UNCHANGED <<scenario, drawVars>>
    \/ RemoveCycle

SpecView == InitView /\ [][NextView]_vars

\* every image load ends (onload, onabort or onerror) and every callback of a
\* resolved promise runs
FetchRecords == [b : BatchIds, url : {Amplify(u) : u \in Requests \ {NoUrl}}]
FairSpec ==
    /\ Spec
    /\ \A f \in FetchRecords :
          WF_vars(/\ f \in fetches
                  /\ ImgOnload(f) \/ ImgOnabort(f) \/ ImgOnerror(f)
                  /\ UNCHANGED <<scenario, drawVars>>)
    /\ \A b \in BatchIds : WF_vars(BatchThen(b) /\ UNCHANGED <<scenario, drawVars>>)

(***************************************************************************)
(* C1: needToRedraw() returns false whenever the loading flag is set,      *)
(* whatever the redraw flag, the presence of drawOnInteracting, the map's  *)
(* interaction state and forceRenderOnMoving are.                          *)
(***************************************************************************)
C1_LoadingNeverNeedsRedraw ==
    /\ loadingResource => \A m \in MapStates : ~needToRedraw(m)
    /\ (last.op = "needToRedraw" /\ loadingResource) => ~last.ret

\* needToRedraw() has returned false with the loading flag and the redraw flag both set
C1_Witness ==
    loadingResource /\ toRedraw /\ last.op = "needToRedraw" /\ ~last.ret


(***************************************************************************)
(* C2: when an identifier (url[0]) appears in two or more requests of the  *)
(* batch passed to loadResources, whatever their width/height hints, at    *)
(* most one fetch is issued for it, and the request used is the last       *)
(* occurrence in the batch.                                                *)
(***************************************************************************)
\* render() calls loadResources(resourceUrls) in this step
LoadStep(resourceUrls) ==
    Len(resourceUrls) > 0 /\ Render(TRUE, resourceUrls, FALSE, FALSE)

Occurrences(resourceUrls, id) ==
    {i \in DOMAIN resourceUrls : resourceUrls[i] # NoUrl /\ resourceUrls[i][1] = id}
Last(S) == CHOOSE i \in S : \A j \in S : j <= i
Issued(id) == {f \in fetches' \ fetches : f.url[1] = id}

C2_OneFetchPerIdentifier ==
    [][\A resourceUrls \in Batches : LoadStep(resourceUrls) =>
          \A id \in Ids :
             LET occ == Occurrences(resourceUrls, id) IN
             Cardinality(occ) >= 2 =>
                /\ Cardinality(Issued(id)) <= 1
                /\ \A f \in Issued(id) : f.url = Amplify(resourceUrls[Last(occ)])]_vars

(***************************************************************************)
(* C3: the promise loadResources returns resolves only after every fetch   *)
(* of the batch has ended (load, abort or error), in whatever order they   *)
(* end, and it never rejects; so the loading flag is cleared and the       *)
(* redraw requested after the last cache write or error mark of the batch. *)
(***************************************************************************)
ThenStep(b) == last'.op = "then" /\ last'.b = b
ThenStepOfAny == \E b \in BatchIds : ThenStep(b)
EndOfFetch(f) ==
    f \in fetches /\ f \notin fetches' /\ last'.op \in {"onload", "onabort", "onerror"}

C3_ResolvesAfterEveryFetch ==
    [][/\ \A b \in BatchIds : ThenStep(b) =>
             /\ FetchesOf(b) = {}
             /\ ~loadingResource'
             /\ layer => toRedraw'
       /\ \A f \in FetchRecords : EndOfFetch(f) => batch[f.b] = "pending"
       /\ \A b \in BatchIds : batch'[b] # "rejected"]_vars

\* a batch has resolved after one of its fetches loaded and another failed
C3_Witness ==
    /\ last.op = "then" /\ ~loadingResource /\ toRedraw
    /\ HasEntry(resources, "a.svg") /\ "b.png" \in resources.errors
    /\ \A b \in BatchIds : batch[b] = "free"

(***************************************************************************)
(* C4: when render() has started a load batch, the layer is not removed    *)
(* and every fetch of the batch ends (load, abort or error), then          *)
(* eventually the batch's callback has run: the loading flag is false, the *)
(* redraw flag is set and resourceload has fired, so that needToRedraw()   *)
(* returns true; and a render() with nothing left to load then draws (a    *)
(* layer that is not empty, or has its canvas).                            *)
(***************************************************************************)
Unblocked(b) ==
    /\ last.op = "then" /\ last.b = b /\ last.resourceload
    /\ ~loadingResource /\ toRedraw
    /\ \A m \in MapStates : needToRedraw(m)

BatchOutstanding == \E b \in BatchIds : batch[b] = "pending"

C6_NoDrawWhileBatchOutstanding ==
    (layer /\ BatchOutstanding) =>
        /\ \A m \in MapStates : ~needToRedraw(m)
        /\ ~(last.op = "render" /\ last.drew)

(***************************************************************************)
(* C7: once markErrorResource(k) has been called on a cache,               *)
(* isResourceLoaded(k) returns true, with or without a cached asset for k, *)
(* and keeps returning true: no operation (addResource, merge, a later     *)
(* successful load) takes k out of the error set, and loadResources on     *)
(* that cache never issues a fetch for k again.                            *)
(***************************************************************************)
C7_ErrorMarkIsPermanent ==
    /\ [](\A k \in resources.errors :
            \A url \in ProbeUrls(k), checkSVG \in BOOLEAN :
               isResourceLoaded(resources, url, checkSVG))
    /\ [][\A k \in Ids :
            /\ (last'.op = "onerror" /\ last'.id = k) => k \in resources'.errors
            /\ k \in resources.errors =>
                  /\ k \in resources'.errors
                  /\ Issued(k) = {}]_vars

\* a.svg failed to load in one batch and has then been loaded by another: it has
\* an entry and is still in the error set
C7_Witness ==
    /\ last.op = "onload" /\ last.id = "a.svg"
    /\ "a.svg" \in resources.errors /\ HasEntry(resources, "a.svg")

(***************************************************************************)
(* C8: for an identifier that is not in the error set and has an entry of  *)
(* size (w, h): a size-aware isResourceLoaded of an SVG request (rw, rh)   *)
(* is true iff rw <= w and rh <= h; for a raster identifier, or when the   *)
(* check is not size-aware, the entry alone makes it true for every        *)
(* requested size. (Sizes that are numbers: a missing hint is NaN.)        *)
(***************************************************************************)
IsNum(x) == x.t = "number"

C8_SizeAwareLoaded ==
    \A id \in Ids :
       (id \notin resources.errors /\ HasEntry(resources, id)) =>
          LET img == EntryOf(resources, id) IN
          \A url \in ProbeUrls(id) :
             /\ isResourceLoaded(resources, url, FALSE)
             /\ isSVG(id) = 0 => isResourceLoaded(resources, url, TRUE)
             /\ (isSVG(id) # 0 /\ IsNum(img.width) /\ IsNum(img.height)
                   /\ IsNum(url[2]) /\ IsNum(url[3])) =>
                  (isResourceLoaded(resources, url, TRUE)
                     <=> (url[2].v <= img.width.v /\ url[3].v <= img.height.v))

\* a size-aware isResourceLoaded has returned false for an SVG that is cached, at a
\* size as wide as can be but not as high
C8_Witness ==
    /\ last.op = "isResourceLoaded" /\ last.id = "a.svg" /\ last.checkSVG /\ ~last.ret
    /\ "a.svg" \notin resources.errors /\ HasEntry(resources, "a.svg")
    /\ EntryOf(resources, "a.svg").width = Num(MaxSize)
    /\ EntryOf(resources, "a.svg").height = Num(1)

(***************************************************************************)
(* C9: a fetch that ends in abort resolves its promise and leaves the      *)
(* cache as it was: no entry is added and the identifier is not put in the *)
(* error set, so an isResourceLoaded that was false stays false; and a     *)
(* loadResources batch that requests a url isResourceLoaded reports unmet  *)
(* issues a fetch for its identifier.                                      *)
(***************************************************************************)
C9_AbortLeavesCacheAndRefetches ==
    [][/\ \A f \in fetches : (last'.op = "onabort" /\ ImgOnabort(f)) =>
             /\ f \notin fetches'
             /\ batch'[f.b] = batch[f.b]
             /\ resources'.resources = resources.resources
             /\ resources'.errors = resources.errors
             /\ ~isResourceLoaded(resources, f.url, TRUE)
                   => ~isResourceLoaded(resources', f.url, TRUE)
       /\ \A resourceUrls \in Batches : (last'.op = "render" /\ LoadStep(resourceUrls)) =>
             \A i \in DOMAIN resourceUrls :
                LET url == resourceUrls[i] IN
                (url # NoUrl /\ ~isResourceLoaded(resources, url, TRUE))
                   => Issued(url[1]) # {}]_vars

\* the fetch of a.svg has just been aborted: a.svg has no entry and no error mark, no
\* other fetch of it is under way, and the layer can start another batch
C9_Witness ==
    /\ last.op = "onabort" /\ last.id = "a.svg"
    /\ ~HasEntry(resources, "a.svg") /\ "a.svg" \notin resources.errors
    /\ \A f \in fetches : f.url[1] # "a.svg"
    /\ layer /\ FreeBatches # {}

(***************************************************************************)
(* C10: after a.merge(b) every identifier with an entry in b has in a an   *)
(* entry with the same image, width and height; a's error set is what it   *)
(* was (no error mark of b is copied); b is unchanged; the entries of a    *)
(* whose identifier is not in b are unchanged; merge(null) changes nothing.*)
(***************************************************************************)
MergePost(a, b, a2) ==
    /\ \A e \in b.resources : e \in a2.resources
    /\ \A e \in a.resources : e.key \notin Keys(b) => e \in a2.resources
    /\ \A e \in a2.resources : e \in b.resources \/ (e \in a.resources /\ e.key \notin Keys(b))
    /\ a2.errors = a.errors

C10_MergeCopiesEntriesOnly ==
    [][/\ (last'.op = "merge" /\ ~last'.nil) =>
             \A res \in CachesWith(last'.keys, last'.errors) :
                CacheMerge(res) => MergePost(resources, res, resources')
       /\ (last'.op = "merge" /\ last'.nil) =>
             (CacheMerge(NoCache) => resources' = resources)
       /\ last'.op = "mergeSelf" => (CacheMergeSelf => resources' = resources)]_vars

\* a cache with an entry for b.png and a.svg in its error set has been merged with
\* one that has an entry for a.svg and b.png in its error set
C10_Witness ==
    /\ last.op = "merge" /\ ~last.nil
    /\ last.keys = {"a.svg"} /\ last.errors = {"b.png"}
    /\ Keys(resources) = {"a.svg", "b.png"} /\ resources.errors = {"a.svg"}

(***************************************************************************)
(* C11 as stated: for a layer without drawOnInteracting, with no load      *)
(* outstanding and the redraw flag clear, needToRedraw() returns false     *)
(* during a pure pan (no pitch, no zoom, no rotation, forceRenderOnMoving  *)
(* unset) and returns true during a zoom change.                           *)
(***************************************************************************)
PureTranslation(m) == m.pitch = 0 /\ m.moving /\ ~m.zooming /\ ~m.rotating
PurePan(m) == m.interacting /\ PureTranslation(m) /\ ~m.forceRenderOnMoving
ZoomChange(m) == m.interacting /\ m.zooming
\* needToRedraw() has just been called with no load outstanding and the flag clear
AskedAtRest == last.op = "needToRedraw" /\ ~loadingResource /\ ~toRedraw

C11_StaticLayerRedrawnOnZoom ==
    (AskedAtRest /\ ~map.drawOnInteracting) =>
        /\ PurePan(map) => ~last.ret
        /\ ZoomChange(map) => last.ret

(***************************************************************************)
(* C11 as amended: under the same conditions needToRedraw() returns false  *)
(* during a pure pan, and it returns false during a zoom change as well.   *)
(***************************************************************************)
C11_StaticLayerNotRedrawnOnZoom ==
    (AskedAtRest /\ ~map.drawOnInteracting) =>
        /\ PurePan(map) => ~last.ret
        /\ ZoomChange(map) => ~last.ret

\* needToRedraw() has returned false for such a layer while the map was zooming
C11_Witness ==
    /\ AskedAtRest /\ ~map.drawOnInteracting
    /\ ZoomChange(map) /\ ~map.moving /\ ~last.ret

(***************************************************************************)
(* C12: for a layer without drawOnInteracting needToRedraw() is (not       *)
(* loading and redraw flag set) in every state: whether the map is moving, *)
(* zooming, rotating or pitched never makes it return true.                *)
(***************************************************************************)
C12_StaticLayerFollowsFlag ==
    /\ \A m \in MapStates :
          ~m.drawOnInteracting => (needToRedraw(m) <=> (~loadingResource /\ toRedraw))
    /\ (last.op = "needToRedraw" /\ last.ret) =>
          \/ ~loadingResource /\ toRedraw
          \/ \E m \in MapStates : m.drawOnInteracting /\ m.interacting /\ needToRedraw(m)

\* needToRedraw() has returned false with no load outstanding and the flag clear
C12_Witness ==
    /\ layer /\ last.op = "needToRedraw" /\ ~last.ret
    /\ ~loadingResource /\ ~toRedraw /\ painted

(***************************************************************************)
(* C13: for a layer with drawOnInteracting, no load outstanding and the    *)
(* redraw flag clear, needToRedraw() is false when the map is not          *)
(* interacting; while it is interacting, false iff the interaction is a    *)
(* pure translation (pitch zero, moving, not zooming, not rotating) and    *)
(* forceRenderOnMoving is unset, and true for every other combination.     *)
(***************************************************************************)
C13_InteractiveLayer ==
    (AskedAtRest /\ map.drawOnInteracting) =>
        /\ ~map.interacting => ~last.ret
        /\ map.interacting =>
              (~last.ret <=> (PureTranslation(map) /\ ~map.forceRenderOnMoving))

\* needToRedraw() has returned true for a map that is moving and pitched, and nothing else
C13_Witness ==
    /\ AskedAtRest /\ map.drawOnInteracting /\ ~map.forceRenderOnMoving
    /\ map.interacting /\ map.moving /\ map.pitch = 1 /\ ~map.zooming /\ ~map.rotating
    /\ last.ret

(***************************************************************************)
(* C14: setToRedraw() is idempotent: a setToRedraw() that follows another  *)
(* with no draw in between changes nothing, and the calls collapse into    *)
(* one pending redraw: after the render() that draws the flag is clear and *)
(* needToRedraw() is false (map not interacting), until the next           *)
(* invalidation.                                                           *)
(***************************************************************************)
Program ==
    <<layer, toRedraw, loadingResource, canvas, painted, hasResources, resources,
      fetches, batch, map, surface, cycle>>

C14_SetToRedrawIdempotent ==
    [][/\ (last'.op = "setToRedraw" /\ scenario.calls >= 1) => UNCHANGED Program
       /\ last'.op = "setToRedraw" => toRedraw'
       /\ (last'.op = "render" /\ last'.drew) =>
             /\ ~toRedraw'
             /\ \A m \in IdleMaps : ~needToRedraw(m)'
       /\ (~toRedraw /\ toRedraw') => last'.op \in {"setToRedraw"} \cup Invalidating]_vars

\* one render() has drawn after MaxCalls calls of setToRedraw(), and the flag is clear
C14_Witness ==
    /\ last.op = "render" /\ last.drew
    /\ scenario.collapsed = MaxCalls /\ scenario.calls = 0
    /\ ~toRedraw /\ ~map.interacting

(***************************************************************************)
(* C15: an exception thrown by the layer's draw() is not absorbed: it      *)
(* leaves render() for the caller and the cycle is aborted: completeRender *)
(* is not reached and renderComplete stays false.                          *)
(***************************************************************************)
\* render() reaches draw() in this step, and draw() runs as run says
DrawStep(run) == last'.op = "render" /\ last'.drew /\ last'.run = run

C15_DrawExceptionPropagates ==
    [][\A run \in DrawRuns : (run.end = "throw" /\ DrawStep(run)) =>
          /\ last'.threw
          /\ ~cycle'.renderComplete
          /\ cycle'.canvasUpdated = cycle.canvasUpdated]_vars

\* draw() has thrown after its prepareCanvas, in a cycle that follows a complete one
C15_Witness ==
    /\ last.op = "render" /\ last.threw /\ last.ret # NotCalled
    /\ canvas /\ painted /\ ~cycle.renderComplete /\ cycle.canvasUpdated

(***************************************************************************)
(* C16: after a render() in which draw() threw the redraw flag is still    *)
(* set, so that needToRedraw() returns true on the next tick without a new *)
(* invalidation.                                                           *)
(***************************************************************************)
C16_PendingAfterThrow ==
    (layer /\ last.op = "render" /\ last.threw) =>
        /\ toRedraw
        /\ \A m \in MapStates : needToRedraw(m)

\* C16, as the code has it: after a render() in which draw() threw the redraw
\* flag has been cleared (before draw() was called), so needToRedraw() returns
\* false while the map is at rest until the layer is invalidated again.
C16_FlagClearedAfterThrow ==
    (layer /\ last.op = "render" /\ last.threw) =>
        /\ ~toRedraw
        /\ \A m \in MapStates : ~m.interacting => ~needToRedraw(m)

\* draw() has thrown in a render() asked for by setToRedraw(), and the flag is down
C16_Witness ==
    /\ layer /\ last.op = "render" /\ last.drew /\ last.threw
    /\ last.run.end = "throw" /\ ~toRedraw /\ ~loadingResource

(***************************************************************************)
(* C17: hitDetect returns false without reading a pixel when there is no   *)
(* context, the layer is empty or the canvas is blank; once a pixel read   *)
(* has thrown, _errorThrown is set for ever, the warning has been logged   *)
(* once, and every later hitDetect returns false without reading.          *)
(***************************************************************************)
C17_HitDetectTaint ==
    /\ [](cycle.warned = IF cycle.errorThrown THEN 1 ELSE 0)
    /\ [][/\ cycle.errorThrown => cycle'.errorThrown
          /\ last'.op = "hitDetect" =>
                /\ (~canvas \/ ~painted \/ cycle.errorThrown) =>
                      (~last'.ret /\ ~last'.read /\ cycle' = cycle)
                /\ \A inside \in BOOLEAN, px \in Pixels :
                      HitDetect(TRUE, inside, px) =>
                         (~last'.ret /\ ~last'.read /\ cycle' = cycle)
                /\ \A empty \in BOOLEAN :
                      (HitDetect(empty, TRUE, "throws") /\ last'.read) =>
                         (~last'.ret /\ cycle'.errorThrown)]_vars

\* a pixel read has thrown, and a later hitDetect on the painted canvas has returned
\* false without reading
C17_Witness ==
    /\ last.op = "hitDetect" /\ ~last.ret /\ ~last.read
    /\ canvas /\ painted /\ cycle.errorThrown /\ cycle.warned = 1

(***************************************************************************)
(* C18: after remove() the ends of the fetches still under way (load,      *)
(* abort, error) and the callback of the batch do nothing: no entry and no *)
(* error mark is written to the cache the batch was started with, no       *)
(* resourceload is fired and no redraw is requested.                       *)
(***************************************************************************)
C18_NoOpsAfterRemove ==
    [][(~layer /\ last'.op \in {"onload", "onabort", "onerror", "then"}) =>
          /\ resources' = resources
          /\ toRedraw' = toRedraw
          /\ last'.op = "then" => ~last'.resourceload]_vars

(***************************************************************************)
(* C19: resizeCanvas(size) changes nothing when the canvas is already      *)
(* pixelRatio * size wide and high; when either differs it sets both       *)
(* dimensions to the scaled size and applies the pixel-ratio scale once to *)
(* the context; it does nothing when there is no canvas; createCanvas does *)
(* nothing when there is a canvas.                                         *)
(***************************************************************************)
SameCanvas == UNCHANGED <<canvas, surface, cycle>>

C19_ResizeOnlyWhenSizeDiffers ==
    [][/\ last'.op = "resizeCanvas" =>
             \A canvasSize \in Sizes \cup {NoSize}, mapSize \in Sizes :
                ResizeCanvas(canvasSize, mapSize) =>
                   LET size == IF canvasSize = NoSize THEN mapSize ELSE canvasSize
                       w == ratio(surface) * size.width
                       h == ratio(surface) * size.height
                   IN  IF ~canvas \/ (surface.width = w /\ surface.height = h)
                       THEN SameCanvas
                       ELSE /\ canvas'
                            /\ surface'.width = w /\ surface'.height = h
                            /\ surface'.scale = ratio(surface)
                            /\ UNCHANGED cycle
       /\ (last'.op = "createCanvas" /\ canvas) => SameCanvas]_vars

\* on a retina screen a canvas of another height has been resized to the map's size
C19_Witness ==
    /\ last.op = "resizeCanvas" /\ last.resized /\ last.size = NoSize
    /\ surface.retina /\ surface.width = 2 /\ surface.height = 2 * MaxDim
    /\ surface.scale = 2

(***************************************************************************)
(* C20: prepareCanvas with a mask whose extent does not meet the view      *)
(* extent of the current render makes no clip (the clipped flag is false,  *)
(* nothing is saved on the context) and returns the mask's extent; with no *)
(* mask it returns null and makes no clip; with a mask that meets the view *)
(* it makes a clip and returns the mask's extent.                          *)
(***************************************************************************)
C20_MaskClip ==
    [][\A run \in DrawRuns : (run.prepare /\ DrawStep(run)) =>
          IF run.mask = NoMask
          THEN last'.ret = Null /\ ~surface'.clipped /\ surface'.saved = 0
          ELSE /\ last'.ret = run.mask.extent
               /\ cycle'.maskExtent = run.mask.extent
               /\ IF intersects(run.mask, cycle'.extent2D)
                  THEN surface'.clipped /\ surface'.saved = 1
                  ELSE ~surface'.clipped /\ surface'.saved = 0]_vars

\* a cycle with a clip has been followed by one whose view the mask m1 does not
\* meet: no clip, and m1's extent returned
C20_Witness ==
    /\ last.op = "render" /\ last.ret = "m1"
    /\ cycle.extent2D = "v2" /\ cycle.maskExtent = "m1"
    /\ ~surface.clipped /\ surface.saved = 0 /\ canvas

(***************************************************************************)
(* C21: over any sequence of prepareCanvas calls, with or without a mask,  *)
(* meeting the view or not, the clip of one cycle is undone (context       *)
(* restore) at the start of the next prepareCanvas before a new one is     *)
(* made: the context holds 0 or 1 saved states, and 1 exactly when the     *)
(* clipped flag is true.                                                   *)
(***************************************************************************)
Balanced == surface.saved = IF surface.clipped THEN 1 ELSE 0
PrepareCanvasStep == \E run \in DrawRuns : run.prepare /\ DrawStep(run)
\* the steps that give the canvas a new context or take it away
ContextReset == last'.op \in {"resizeCanvas", "_resize", "remove"}

C21_ClipRevertedBeforeNext ==
    /\ [](surface.saved \in {0, 1} /\ (surface.saved = 1 => surface.clipped))
    /\ [][/\ PrepareCanvasStep => Balanced'
          /\ (Balanced /\ ~ContextReset) => Balanced']_vars

\* a cycle with a clip has followed a cycle with a clip: the first was undone
C21_Witness ==
    /\ last.op = "render" /\ last.drew /\ last.restored
    /\ surface.clipped /\ surface.saved = 1

(***************************************************************************)
(* C22: isRenderComplete() is true only if the last render() ran its       *)
(* draw() to completeRender: it is false after every render() cut short by *)
(* an empty layer, a missing map, an invisible layer or the start of a     *)
(* load, and every render() begins by resetting it.                        *)
(***************************************************************************)
FullDraw == last'.drew /\ last'.run.end = "complete" /\ canvas'

C22_CompleteOnlyAfterFullDraw ==
    [][last'.op = "render" => (cycle'.renderComplete => FullDraw)]_vars

\* C22, as the code has it: after a render() isRenderComplete() is true exactly
\* when draw() ran to completeRender with a canvas, or the render() was cut short
\* by an empty layer without a canvas, which marks the cycle complete; it is
\* false after a render() cut short by a missing map, an invisible layer or the
\* start of a load.
C22_CompleteAfterFullDrawOrEmpty ==
    [][last'.op = "render" =>
          /\ cycle'.renderComplete <=>
                \/ FullDraw
                \/ ~last'.drew /\ last'.skipped = "empty"
          /\ (~last'.drew /\ last'.skipped \in {"no map", "invisible", "load"}) =>
                ~cycle'.renderComplete]_vars

\* a render() cut short by an empty layer without a canvas has marked the cycle
\* complete
C22_Witness ==
    /\ last.op = "render" /\ ~last.drew /\ last.skipped = "empty"
    /\ cycle.renderComplete /\ ~canvas /\ ~toRedraw

(***************************************************************************)
(* C23: a render() of a visible layer starts a load batch and skips the    *)
(* draw if and only if one of the resources the layer names is unmet in    *)
(* the cache: a batch that starts has a fetch to make; when every resource *)
(* named is met (in the cache at a sufficient size, or marked as failed)   *)
(* no batch starts, the loading flag stays false and draw() is called in   *)
(* the same render().                                                      *)
(***************************************************************************)
\* the render() of this step started a batch
StartsBatch == last'.op = "render" /\ last'.b # 0

C23_BatchOnlyWhenUnmet ==
    [][/\ StartsBatch => \E f \in fetches' \ fetches : f.b = last'.b
       /\ (last'.op = "render" /\ ~StartsBatch) =>
             loadingResource' = loadingResource]_vars

(***************************************************************************)
(* C24: the flag a failed pixel read sets changes hitDetect and nothing    *)
(* else: of two renderers in states that differ in this flag only, every   *)
(* render(), needToRedraw(), setToRedraw(), getCanvasImage() and end of a  *)
(* load gives the same result and leaves the same state in both.           *)
(***************************************************************************)
\* the renderer as it would be had no pixel read failed
Untainted == [D EXCEPT !.cycle.errorThrown = FALSE, !.cycle.warned = 0]
\* this step leaves what it leaves from d, but for the flag and its warning
AsFrom(d) ==
    /\ canvas' = d.canvas
    /\ surface' = d.surface
    /\ cycle' = [d.cycle EXCEPT !.errorThrown = TRUE, !.warned = 1]
RenderSkipped(why) == last'.op = "render" /\ ~last'.drew /\ last'.skipped \in why

C24_TaintChangesOnlyHitDetect ==
    [][/\ cycle.errorThrown =>
             /\ (last'.op = "render" /\ last'.drew) =>
                   LET r == DrawAndRecord(prepareRender(Untainted, cycle'.extent2D),
                                          last'.run, AnySize)
                   IN  /\ AsFrom(r.d)
                       /\ last'.ret = r.ret /\ last'.threw = r.threw
                       /\ ~toRedraw' /\ painted'
             /\ RenderSkipped({"invisible", "load"}) =>
                   AsFrom(prepareRender(Untainted, cycle'.extent2D))
             /\ RenderSkipped({"empty"}) =>
                   AsFrom([prepareRender(Untainted, cycle'.extent2D)
                              EXCEPT !.cycle.renderComplete = TRUE])
             /\ last'.op = "getCanvasImage" =>
                   LET g == getCanvasImage(Untainted, painted, last'.empty)
                   IN  AsFrom(g.d) /\ last'.ret = g.ret
             /\ last'.op \in {"needToRedraw", "setToRedraw", "then"} => SameCanvas
       /\ last'.op = "hitDetect" =>
             /\ UNCHANGED <<layer, toRedraw, loadingResource, canvas, painted, surface,
                            resources, fetches, batch>>
             /\ \/ cycle' = cycle
                \/ cycle' = [cycle EXCEPT !.errorThrown = TRUE, !.warned = 1]]_vars

\* after a failed pixel read a draw has run to its end and getCanvasImage has given
\* the canvas
C24_Witness ==
    /\ last.op = "getCanvasImage" /\ last.ret.image = "canvas"
    /\ cycle.errorThrown /\ cycle.renderComplete

(***************************************************************************)
(* C25: the handlers of the end of an interaction (onZoomEnd, onMoveEnd,   *)
(* onDragRotateEnd) and onResize each set the redraw flag, so that a layer *)
(* whose cycle is complete is to be redrawn; the handlers of its start and *)
(* progress and onSpatialReferenceChange leave every field of the renderer *)
(* as it was.                                                              *)
(***************************************************************************)
EndHandlers == {"_zoomend", "_moveend", "_dragrotateend", "_resize"}
EmptyHandlers ==
    {"_zoomstart", "_zooming", "_movestart", "_moving", "_dragrotatestart",
     "_dragrotating", "_spatialreferencechange"}

C25_EndHandlersInvalidate ==
    [][/\ last'.op \in EndHandlers =>
             /\ toRedraw'
             /\ (layer /\ ~loadingResource) => needToRedraw(MapAtRest)'
       /\ last'.op \in EmptyHandlers =>
             UNCHANGED <<layer, toRedraw, loadingResource, canvas, painted, hasResources,
                         resources, fetches, batch, surface, cycle>>]_vars

\* the end of a rotation has set the flag of a layer whose cycle was complete
C25_Witness ==
    /\ last.op = "_dragrotateend" /\ toRedraw /\ cycle.renderComplete
    /\ canvas /\ painted /\ ~loadingResource

(***************************************************************************)
(* C26: outside Node the size hints of an SVG request (id, w, h) are       *)
(* doubled before the fetch is issued, the entry cached under id when the  *)
(* image loads records (2w, 2h), and a later size-aware test of id is met  *)
(* for every requested size up to (2w, 2h) and unmet for a larger one; the *)
(* hints of a request of a raster image are fetched and recorded as asked. *)
(***************************************************************************)
Doubled(x) == IF IsNum(x) THEN Num(x.v + x.v) ELSE x
Numeric(u) == IsNum(u[2]) /\ IsNum(u[3])
Svg == {"a.svg"}

C26_SvgAmplified ==
    [][/\ last'.op = "render" =>
             \A f \in fetches' \ fetches :
                LET u == scenario'.req[f.b] IN
                /\ (u[1] \in Svg /\ Numeric(u)) =>
                      f.url = <<u[1], Doubled(u[2]), Doubled(u[3])>>
                /\ u[1] \notin Svg => f.url = u
       /\ (last'.op = "onload" /\ layer /\ hasResources) =>
             LET u == scenario.req[last'.b]
                 id == u[1] IN
             /\ HasEntry(resources', id)
             /\ (id \in Svg /\ Numeric(u)) =>
                   /\ EntryOf(resources', id).width = Doubled(u[2])
                   /\ EntryOf(resources', id).height = Doubled(u[3])
                   /\ id \notin resources'.errors =>
                         \A probe \in ProbeUrls(id) :
                            Numeric(probe) =>
                               (isResourceLoaded(resources', probe, TRUE)
                                  <=> /\ probe[2].v <= 2 * u[2].v
                                      /\ probe[3].v <= 2 * u[3].v)
             /\ id \notin Svg =>
                   /\ EntryOf(resources', id).width = ToNumber(u[2])
                   /\ EntryOf(resources', id).height = ToNumber(u[3])
                   /\ \A probe \in ProbeUrls(id) :
                         isResourceLoaded(resources', probe, TRUE)]_vars

\* the image of the request (a.svg, 1, 2) has loaded and its entry records (2, 4)
C26_Witness ==
    /\ last.op = "onload" /\ last.id = "a.svg"
    /\ scenario.phase = "amp" /\ scenario.req[last.b] = <<"a.svg", Num(1), Num(2)>>
    /\ HasEntry(resources, "a.svg")
    /\ EntryOf(resources, "a.svg").width = Num(2)
    /\ EntryOf(resources, "a.svg").height = Num(4)
    /\ isResourceLoaded(resources, <<"a.svg", Num(2), Num(4)>>, TRUE)
    /\ ~isResourceLoaded(resources, <<"a.svg", Num(3), Num(4)>>, TRUE)

(***************************************************************************)
(* C27: getCanvasImage() of an attached renderer returns null when the     *)
(* zoom of the last render's snapshot is not the map's zoom, when there is *)
(* no canvas, when there is no extent snapshot (onResize deletes it and    *)
(* only a render brings it back), when nothing was painted, or when the    *)
(* layer is empty; otherwise it returns the canvas at the origin and with  *)
(* the size of the snapshot. Every call clears the canvas-updated flag.    *)
(***************************************************************************)
GivesNoImage(empty) ==
    \/ cycle.renderZoom # Num(zoom)
    \/ ~canvas
    \/ cycle.extent2D = NoExtent
    \/ ~painted
    \/ empty

C28_EmptyLayerNoCanvas ==
    [][/\ \A view \in Views :
             (~canvas /\ RenderCycle(TRUE, TRUE, NoDraw, view, AnySize)) =>
                /\ ~canvas' /\ surface' = surface
                /\ ~last'.drew /\ ~last'.onAdd
                /\ painted' = painted
                /\ ~toRedraw'
       /\ (~canvas /\ ~(last'.op = "render" /\ last'.drew)) => ~canvas']_vars

\* an empty layer without a canvas was rendered at zoom 2: no canvas, the flag clear
C28_Witness ==
    /\ last.op = "render" /\ ~last.drew /\ last.skipped = "empty"
    /\ layer /\ ~canvas /\ ~painted /\ ~toRedraw
    /\ cycle.renderComplete /\ cycle.renderZoom = Num(2)

(***************************************************************************)
(* The feature filter (createFilter). The compiled source text is a        *)
(* sequence of tokens, which the evaluation parses with the precedence of  *)
(* JavaScript's operators and then runs on a feature.                      *)
(***************************************************************************)
types == <<"Unknown", "Point", "LineString", "Polygon", "MultiPoint", "MultiLineString",
           "MultiPolygon", "GeometryCollection">>

\* JavaScript values met by a filter, besides Undefined and Num(n)
Text(s) == [t |-> "string", v |-> s]
Bool(b) == [t |-> "boolean", v |-> b]
\* the name of a property: name, or '$' + name
Key(dollar, name) == [t |-> "key", dollar |-> dollar, name |-> name]

\* a filter: null/undefined, or an array whose first item is the operator
NullFilter == [kind |-> "null"]
Filter(items) == [kind |-> "array", items |-> items]

\* types.indexOf(value)
indexOf(value) ==
    IF value.t = "string" /\ \E i \in 1..Len(types) : types[i] = value.v
    THEN Num((CHOOSE i \in 1..Len(types) : types[i] = value.v) - 1)
    ELSE Num(0 - 1)

\* filter[i] of an array, undefined past its end (i from 0)
At(items, i) == IF i + 1 <= Len(items) THEN items[i + 1] ELSE Undefined

Tok(s) == [t |-> s]
Lit(v) == [t |-> "lit", v |-> v]

\* 'f.' + property.substring(1), or 'p[' + JSON.stringify(property) + ']'
compilePropertyReference(property) ==
    IF property.dollar THEN <<[t |-> "ref", on |-> "f", name |-> property.name]>>
    ELSE <<[t |-> "ref", on |-> "p", name |-> property]>>

compileComparisonOp(property, value, op, checkType) ==
    LET left == compilePropertyReference(property)
        right == IF property = Key(TRUE, "type") THEN <<Lit(indexOf(value))>>
                 ELSE <<Lit(value)>>
    IN  (IF checkType
         THEN <<Tok("typeof")>> \o left \o <<Tok("==="), Tok("typeof")>> \o right
                 \o <<Tok("&&")>>
         ELSE <<>>) \o left \o <<Tok(op)>> \o right

\* Comparison function to sort numbers
compare(a, b) == IF Gt(b, a) THEN 0 - 1 ELSE IF Gt(a, b) THEN 1 ELSE 0

\* an in-test that never negates: '!in' tests as 'in' does
compileNegationLost(expression) == <<Tok("(")>> \o expression \o <<Tok(")")>>

compileNegation(expression) == <<Tok("!"), Tok("(")>> \o expression \o <<Tok(")")>>

compileHasOp(property) == <<Lit(property), Tok("in"), Tok("p")>>

compileInOp(property, values0) ==
    LET values == IF property = Key(TRUE, "type")
                  THEN [i \in 1..Len(values0) |-> indexOf(values0[i])]
                  ELSE values0
        \* JSON.stringify(values.sort(compare))
        left == [t |-> "array", items |-> SortSeq(values, LAMBDA a, b : compare(a, b) < 0)]
        right == compilePropertyReference(property)
    IN  IF Len(values) <= 200
        THEN <<Lit(left), Tok(".indexOf(")>> \o right
                \o <<Tok(")"), Tok("!=="), Lit(Num(0 - 1))>>
        ELSE <<[t |-> "search", v |-> right[1], a |-> left, i |-> 0,
                j |-> Len(values) - 1]>>

\* expressions.map(compile).join(op)
RECURSIVE compile(_), compileLogicalOp(_, _)
compileLogicalOp(expressions, op) ==
    IF Len(expressions) = 0 THEN <<>>
    ELSE IF Len(expressions) = 1 THEN compile(expressions[1])
    ELSE compile(expressions[1]) \o <<Tok(op)>> \o compileLogicalOp(Tail(expressions), op)

compile(filter) ==
    IF filter.kind = "null" THEN <<Tok("true")>>
    ELSE LET f == filter.items IN
         IF Len(f) = 0 THEN <<Tok("true")>>
         ELSE LET op == f[1] IN
         IF Len(f) <= 1 THEN (IF op = "any" THEN <<Tok("false")>> ELSE <<Tok("true")>>)
         ELSE LET str ==
                  IF op = "==" THEN compileComparisonOp(At(f, 1), At(f, 2), "===", FALSE)
                  ELSE IF op = "!=" THEN compileComparisonOp(At(f, 1), At(f, 2), "!==", FALSE)
                  ELSE IF op \in {"<", ">", "<=", ">="}
                  THEN compileComparisonOp(At(f, 1), At(f, 2), op, TRUE)
                  ELSE IF op = "any" THEN compileLogicalOp(Tail(f), "||")
                  ELSE IF op = "all" THEN compileLogicalOp(Tail(f), "&&")
                  ELSE IF op = "none"
                  THEN compileNegation(compileLogicalOp(Tail(f), "||"))
                  ELSE IF op = "in" THEN compileInOp(At(f, 1), Tail(Tail(f)))
                  ELSE IF op = "!in"
                  THEN compileNegation(compileInOp(At(f, 1), Tail(Tail(f))))
                  ELSE IF op = "has" THEN compileHasOp(At(f, 1))
                  ELSE IF op = "!has"
                  THEN compileNegation(compileHasOp([t |-> "array", items |-> <<At(f, 1)>>]))
                  ELSE <<Tok("true")>>
              IN  <<Tok("(")>> \o str \o <<Tok(")")>>

(***************************************************************************)
(* new Function('f', 'var p = (f && f.properties || {}); return ' + body): *)
(* the body is parsed by the precedence of its operators, lowest first:    *)
(* ||, &&, === and !==, the relational operators and in, the unary ! and   *)
(* typeof, the call of indexOf, and the primary expressions.               *)
(***************************************************************************)
RECURSIVE ParseBin(_, _, _), ParseRest(_, _, _), ParseUnary(_, _)
ParseBin(t, i, level) ==
    IF level > 4 THEN ParseUnary(t, i)
    ELSE ParseRest(t, ParseBin(t, i, level + 1), level)

ParseRest(t, left, level) ==
    IF /\ left.next <= Len(t)
       /\ t[left.next].t \in (IF level = 1 THEN {"||"}
                              ELSE IF level = 2 THEN {"&&"}
                              ELSE IF level = 3 THEN {"===", "!=="}
                              ELSE {"<", ">", "<=", ">=", "in"})
    THEN LET r == ParseBin(t, left.next + 1, level + 1) IN
         ParseRest(t, [node |-> [k |-> "bin", op |-> t[left.next].t,
                                 l |-> left.node, r |-> r.node],
                       next |-> r.next], level)
    ELSE left

\* a unary operator and its operand; or a primary expression (a parenthesised
\* expression, a literal, a reference), with the call of indexOf if one follows
ParseUnary(t, i) ==
    IF i > Len(t) THEN [node |-> [k |-> "error"], next |-> Len(t) + 2]
    ELSE IF t[i].t \in {"!", "typeof"}
    THEN LET e == ParseUnary(t, i + 1) IN
         [node |-> [k |-> "un", op |-> t[i].t, e |-> e.node], next |-> e.next]
    ELSE LET a == IF t[i].t = "("
                  THEN LET e == ParseBin(t, i + 1, 1) IN
                       [node |-> e.node, next |-> e.next + 1]
                  ELSE [node |-> [k |-> "prim", tok |-> t[i]], next |-> i + 1]
         IN  IF a.next <= Len(t) /\ t[a.next].t = ".indexOf("
             THEN LET arg == ParseBin(t, a.next + 1, 1) IN
                  [node |-> [k |-> "indexOf", arr |-> a.node, arg |-> arg.node],
                   next |-> arg.next + 1]
             ELSE a

Parse(t) ==
    LET r == ParseBin(t, 1, 1) IN
    IF r.next = Len(t) + 1 THEN r.node ELSE [k |-> "error"]

\* a feature: null, or an object with a type and properties
NullFeature == [t |-> "null"]
Feature(type, properties) == [t |-> "object", type |-> Num(type), properties |-> properties]

\* f && f.properties || {}
PropertiesOf(f) == IF f.t = "null" THEN <<>> ELSE f.properties

ToBoolean(x) ==
    IF x.t = "boolean" THEN x.v
    ELSE IF x.t = "number" THEN x.v # 0
    ELSE IF x.t \in {"undefined", "null", "NaN"} THEN FALSE
    ELSE TRUE

\* a === b
StrictEq(a, b) == a.t = b.t /\ a = b

\* function(v, a, i, j) { while (i <= j) { ... } return false; }
RECURSIVE search(_, _, _, _)
search(v, a, i, j) ==
    IF i > j THEN FALSE
    ELSE LET m == (i + j) \div 2 IN
         IF StrictEq(a[m + 1], v) THEN TRUE
         ELSE IF Gt(a[m + 1], v) THEN search(v, a, i, m - 1)
         ELSE search(v, a, m + 1, j)

Deref(tok, f) ==
    IF tok.on = "f"
    THEN IF f.t = "null" THEN [t |-> "throw"]
         ELSE IF tok.name = "type" THEN f.type ELSE Undefined
    ELSE IF tok.name \in DOMAIN PropertiesOf(f) THEN PropertiesOf(f)[tok.name]
    ELSE Undefined

RECURSIVE Eval(_, _)
Eval(node, f) ==
    IF node.k = "error" THEN [t |-> "SyntaxError"]
    ELSE IF node.k = "prim"
    THEN LET tok == node.tok IN
         IF tok.t = "true" THEN Bool(TRUE)
         ELSE IF tok.t = "false" THEN Bool(FALSE)
         ELSE IF tok.t = "lit" THEN tok.v
         ELSE IF tok.t = "ref" THEN Deref(tok, f)
         ELSE IF tok.t = "p" THEN [t |-> "object"]
         ELSE IF tok.t = "search"
         THEN LET v == Deref(tok.v, f) IN
              IF v.t = "throw" THEN v
              ELSE Bool(search(v, tok.a.items, tok.i, tok.j))
         ELSE [t |-> "SyntaxError"]
    ELSE IF node.k = "un"
    THEN LET e == Eval(node.e, f) IN
         IF e.t \in {"throw", "SyntaxError"} THEN e
         ELSE IF node.op = "!" THEN Bool(~ToBoolean(e))
         ELSE Text(IF e.t \in {"array", "null"} THEN "object" ELSE e.t)
    ELSE IF node.k = "indexOf"
    THEN LET arr == Eval(node.arr, f)
             arg == Eval(node.arg, f)
         IN  IF arr.t \in {"throw", "SyntaxError"} THEN arr
             ELSE IF arg.t \in {"throw", "SyntaxError"} THEN arg
             ELSE IF \E i \in 1..Len(arr.items) : StrictEq(arr.items[i], arg)
             THEN Num((CHOOSE i \in 1..Len(arr.items) :
                          /\ StrictEq(arr.items[i], arg)
                          /\ \A j \in 1..(i - 1) : ~StrictEq(arr.items[j], arg)) - 1)
             ELSE Num(0 - 1)
    ELSE LET l == Eval(node.l, f) IN
         IF l.t \in {"throw", "SyntaxError"} THEN l
         ELSE IF node.op = "||" THEN (IF ToBoolean(l) THEN l ELSE Eval(node.r, f))
         ELSE IF node.op = "&&" THEN (IF ToBoolean(l) THEN Eval(node.r, f) ELSE l)
         ELSE LET r == Eval(node.r, f) IN
              IF r.t \in {"throw", "SyntaxError"} THEN r
              ELSE IF node.op = "===" THEN Bool(StrictEq(l, r))
              ELSE IF node.op = "!==" THEN Bool(~StrictEq(l, r))
              ELSE IF node.op = "in"
              THEN \* the name the left operand stands for: String(["a"]) is "a"
                   Bool((IF l.t = "array" THEN l.items[1] ELSE l) \in DOMAIN PropertiesOf(f))
              ELSE IF l.t = "number" /\ r.t = "number"
              THEN Bool(IF node.op = "<" THEN l.v < r.v
                        ELSE IF node.op = ">" THEN l.v > r.v
                        ELSE IF node.op = "<=" THEN l.v <= r.v
                        ELSE l.v >= r.v)
              ELSE Bool(FALSE)

\* createFilter(filter)(f): the function made of the compiled text, called with f
createFilter(filter, f) == Eval(Parse(compile(filter)), f)

(***************************************************************************)
(* The specification of the filter: a list of operands and a feature are   *)
(* drawn, and the filters made of an operator and the list are compiled    *)
(* and run on the feature.                                                 *)
(***************************************************************************)
MaxOperands == 2

PropA == Key(FALSE, "a")
TypeKey == Key(TRUE, "type")

SeqsUpTo(S, n) == UNION {[1..m -> S] : m \in 0..n}

\* the operands of a filter of filters: filters of each operator, and filters of filters
SubFilters ==
    {NullFilter, Filter(<<"all">>), Filter(<<"any">>),
     Filter(<<"==", PropA, Num(1)>>), Filter(<<"<", PropA, Num(2)>>),
     Filter(<<"==", TypeKey, Text("Point")>>),
     Filter(<<"in", PropA, Num(2), Num(1)>>), Filter(<<"!in", PropA, Num(2)>>),
     Filter(<<"has", PropA>>), Filter(<<"!has", PropA>>),
     Filter(<<"any", Filter(<<"==", TypeKey, Text("Point")>>)>>)}
    \cup {Filter(<<op, Filter(<<"==", PropA, Num(1)>>),
                      Filter(<<"==", TypeKey, Text("Point")>>)>>) :
             op \in {"any", "all", "none"}}

\* filter.slice(1) of a filter of filters, and of an in-filter; one in-filter has
\* more values than compileInOp writes as an array literal, in descending order
FilterArgs ==
    {[kind |-> "filters", items |-> fs] : fs \in SeqsUpTo(SubFilters, MaxOperands)}
    \cup {[kind |-> "in", items |-> <<PropA>> \o vs] :
             vs \in SeqsUpTo({Num(1), Num(2), Num(3)}, MaxOperands)
                     \cup {[i \in 1..201 |-> Num(202 - i)]}}
    \cup {[kind |-> "in", items |-> <<TypeKey>> \o vs] :
             vs \in SeqsUpTo({Text("Point"), Text("Polygon"), Text("Circle")}, MaxOperands)}

Features ==
    {NullFeature}
    \cup {Feature(type, properties) :
             type \in {1, 3},
             properties \in {<<>>} \cup
                 {[k \in {PropA} |-> v] : v \in {Num(1), Num(2), Num(202), Text("x")}}}

InitFilter ==
    /\ InitRenderer
    /\ InitDrawVars
    /\ \E args \in FilterArgs, f \in Features :
          scenario = [phase |-> "filter", args |-> args, feature |-> f]

\* createFilter([op, ...args])(feature)
ApplyFilter(op, kind) ==
    /\ scenario.args.kind = kind
    /\ last' = [op |-> "createFilter", filter |-> op,
                ret |-> createFilter(Filter(<<op>> \o scenario.args.items), scenario.feature)]
    /\ RendererIdle /\ UNCHANGED resources

\* createFilter(null)(feature)
ApplyNullFilter ==
    /\ last' = [op |-> "createFilter", filter |-> "null",
                ret |-> createFilter(NullFilter, scenario.feature)]
    /\ RendererIdle /\ UNCHANGED resources

NextFilter ==
    \/ \E op \in {"any", "all", "none"} : ApplyFilter(op, "filters")
    \/ \E op \in {"in", "!in"} : ApplyFilter(op, "in")
    \/ ApplyNullFilter

SpecFilter == InitFilter /\ [][NextFilter]_vars

(***************************************************************************)
(* C29: the compiled filter of null passes every feature; ['all'] passes   *)
(* every feature and ['any'] none; for every list f1..fn (n >= 1) of       *)
(* filters and every feature ['none', f1..fn] gives the negation of what   *)
(* ['any', f1..fn] gives, and ['!in', k, v...] the negation of what        *)
(* ['in', k, v...] gives, each failing exactly when the other fails.       *)
(***************************************************************************)
Negation(r) == IF r.t = "boolean" THEN Bool(~r.v) ELSE r

C29_FilterNegations ==
    last.op = "createFilter" =>
       LET items == scenario.args.items
           f == scenario.feature
       IN  /\ last.filter = "null" => last.ret = Bool(TRUE)
           /\ (last.filter = "all" /\ Len(items) = 0) => last.ret = Bool(TRUE)
           /\ (last.filter = "any" /\ Len(items) = 0) => last.ret = Bool(FALSE)
           /\ last.filter \in {"any", "all", "none", "in", "!in"} =>
                 last.ret.t \in {"boolean", "throw"}
           /\ (last.filter = "none" /\ Len(items) >= 1) =>
                 last.ret = Negation(createFilter(Filter(<<"any">> \o items), f))
           /\ last.filter = "!in" =>
                 last.ret = Negation(createFilter(Filter(<<"in">> \o items), f))

\* ['none', ['==', 'a', 1], ['any', ['==', '$type', 'Point']]] passes a polygon
\* whose property a is 2
C29_Witness ==
    /\ last.op = "createFilter" /\ last.filter = "none" /\ last.ret = Bool(TRUE)
    /\ scenario.args.items =
          <<Filter(<<"==", PropA, Num(1)>>),
            Filter(<<"any", Filter(<<"==", TypeKey, Text("Point")>>)>>)>>
    /\ scenario.feature = Feature(3, [k \in {PropA} |-> Num(2)])

(***************************************************************************)
(* C30: whenever getCanvasImage() gives the canvas, the canvas was last    *)
(* drawn with the snapshot (zoom, extent and its origin) the renderer now  *)
(* stores: a render() that only starts a load, or returns because the      *)
(* layer is invisible, does not make a bitmap drawn at an earlier zoom     *)
(* valid for the new one.                                                  *)
(***************************************************************************)
C30_ImageDrawnWithSnapshot ==
    (last.op = "getCanvasImage" /\ last.ret.image = "canvas") =>
        surface.drawnWith = [zoom |-> cycle.renderZoom, extent |-> cycle.extent2D]

(***************************************************************************)
(* The loader with the requests of each batch remembered: scenario.req[b]  *)
(* is the array render() gave loadResources for batch b, scenario.ok[b]    *)
(* tells that no fetch of b has failed.                                    *)
(***************************************************************************)
InitOrder ==
    /\ InitRenderer
    /\ scenario = [phase |-> "order", req |-> [b \in BatchIds |-> <<>>],
                   ok |-> [b \in BatchIds |-> TRUE]]
    /\ InitDrawVars

\* render() of a visible layer with checkResources() = resourceUrls
OrderRender(resourceUrls) ==
    /\ Len(resourceUrls) > 0
    /\ Render(TRUE, resourceUrls, FALSE, FALSE)
    /\ scenario' = [scenario EXCEPT !.req[last'.b] = resourceUrls, !.ok[last'.b] = TRUE]
    /\ UNCHANGED drawVars

OrderOnload(f) == ImgOnload(f) /\ UNCHANGED <<scenario, drawVars>>

OrderOnerror(f) ==
    /\ ImgOnerror(f)
    /\ scenario' = [scenario EXCEPT !.ok[f.b] = FALSE]
    /\ UNCHANGED drawVars

OrderThen(b) ==
    /\ BatchThen(b)
    /\ scenario' = [scenario EXCEPT !.req[b] = <<>>, !.ok[b] = TRUE]
    /\ UNCHANGED drawVars

NextOrder ==
    \/ \E resourceUrls \in Batches : OrderRender(resourceUrls)
    \/ \E f \in fetches : OrderOnload(f)
    \/ \E f \in fetches : OrderOnerror(f)
    \/ \E b \in BatchIds : OrderThen(b)

SpecOrder == InitOrder /\ [][NextOrder]_vars

(***************************************************************************)
(* C31: when the then-callback of a batch runs whose fetches all loaded,   *)
(* every request of the batch is met by the size-aware isResourceLoaded,   *)
(* in whatever order the fetches ended, also when the batch asks for the   *)
(* same SVG at two sizes.                                                  *)
(***************************************************************************)
C31_BatchRequestsLoaded ==
    [][(last'.op = "then" /\ scenario.ok[last'.b]) =>
          \A url \in Range(scenario.req[last'.b]) \ {NoUrl} :
             isResourceLoaded(resources, url, TRUE)]_vars

(***************************************************************************)
(* C32: getImage(url) gives an image exactly when the identifier of url    *)
(* has an entry and is not in the error set: null for an identifier in the *)
(* error set, with or without an entry, null for an identifier without an  *)
(* entry, and otherwise the image of the entry, whatever size url asks.    *)
(***************************************************************************)
C32_GetImage ==
    last.op = "getImage" =>
       /\ (last.ret # Null) <=>
             (HasEntry(resources, last.id) /\ last.id \notin resources.errors)
       /\ (HasEntry(resources, last.id) /\ last.id \notin resources.errors) =>
             last.ret = EntryOf(resources, last.id).image

\* the image of an identifier in the error set is not given though the cache has an
\* entry of it
C32_Witness ==
    /\ last.op = "getImage" /\ last.ret = Null
    /\ HasEntry(resources, last.id) /\ last.id \in resources.errors

(***************************************************************************)
(* C33: the painted flag never goes back to false: it is false until the   *)
(* first render() that reaches draw(), that render() sets it whether the   *)
(* draw() returns, completes or throws, and hide, clear, resize, later     *)
(* renders and remove() leave it; isBlank() returns its negation, so it    *)
(* never returns true after the first draw.                                *)
(***************************************************************************)
C33_PaintedMonotonic ==
    [][/\ painted => painted'
       /\ (last'.op = "render" /\ last'.drew) => painted'
       /\ (~painted /\ painted') => (last'.op = "render" /\ last'.drew)
       /\ last'.op = "isBlank" => last'.ret = ~painted']_vars

\* after remove() isBlank() returns false for a renderer that has drawn
C33_Witness ==
    /\ last.op = "isBlank" /\ ~last.ret
    /\ painted /\ ~layer /\ ~canvas

====
